---------------------------- MODULE Spec2Model ----------------------------
(***************************************************************************)
(* A model of the concurrent write engine of jr_writer (writer.go):        *)
(* the Writer with its pool of open files, the retry wrapper, the worker   *)
(* pool of Write and the invocation surface.                               *)
(*                                                                         *)
(* A file handle (an os.File) is a pair <<p, k>>: p is the path it names,  *)
(* k = 0 for the handle the caller created and k >= 1 for a handle opened  *)
(* by writeToFile.  NilFile stands for a nil file pointer.                 *)
(***************************************************************************)
EXTENDS Naturals, Integers, Sequences, FiniteSets, TLC

\* ------------------------------------------------------------------------
\* Bounds of the model
\* ------------------------------------------------------------------------
NumPaths == 3
MaxFiles == 2
MaxPool == 2
MaxRetries == 2
MaxCalls == 2
NumCPU == 2
MaxTries == 6
MaxOps == 4
MaxLiveCalls == 1
NumCallers == 2
MaxBatch == 5
\* The length of the list above which Write takes the batching path: 1000
\* in the code, brought down to the lists of the model.
BatchThreshold == 1
\* The backoff values (ms) the retry wrapper is run with.
Backoffs == {0, 100, 600, 1000}

Paths == 1..NumPaths
\* The paths whose open and write may fail although the handle is open
\* (a transient or permanent I/O error); the other paths are valid,
\* writable files.
Faulty == {NumPaths}
Workers == 1..NumCPU

NilFile == <<0, 0>>
Orig(p) == <<p, 0>>
Name(h) == h[1]
Targets == {NilFile} \cup {Orig(p) : p \in Paths}

VARIABLES
  w,              \* the Writer's fields: files, mode, message, maxConns, retries, backoff
  ctx,            \* w.ctx: the context attached, [by, done]
  openFilesPool,  \* w.openFilesPool: path -> handle, NilFile when absent
  connLastUsed,   \* w.connLastUsed: path -> timestamp, 0 when absent
  open,           \* the handles that are open (Stat succeeds)
  muHolder,       \* the worker holding w.mu, 0 when free
  inv,            \* the invocation in flight: the goroutine running Write
  jobs,           \* the jobs channel
  results,        \* the Results of the invocation in flight
  wk,             \* the workers of the invocation in flight
  log,            \* per job: what was done for it (history, not read by the code)
  ret,            \* what the last invocation returned
  calls,          \* the number of invocations returned so far
  rt,             \* one run of the retry wrapper, taken alone
  api,            \* the last call of the pool and configuration API, and its return
  ch,             \* the channels of the last StartWriteWithCancel, which the
                  \* caller keeps until its next invocation, and the sends on them
  disk,           \* per path: the content of the file, in chunks of one message
  fd,             \* per handle: opened with O_APPEND or not, and its offset in chunks
  calling,        \* per caller: the setter call it is in, and what it has read
  split           \* the last call of batcher: its argument and the batches returned

vars == <<w, ctx, openFilesPool, connLastUsed, open, muHolder, inv, jobs,
          results, wk, log, ret, calls, rt, api, ch, disk, fd, calling, split>>


\* ------------------------------------------------------------------------
\* Helpers
\* ------------------------------------------------------------------------
MaxOf(S) == IF S = {} THEN 0 ELSE CHOOSE x \in S : \A y \in S : y <= x

SeqsUpTo(S, n) == UNION {[1..k -> S] : k \in 0..n}

\* The first place of x in the sequence s, Len(s) + 1 when it has none.
FirstAt(s, x) ==
  IF \E i \in 1..Len(s) : s[i] = x
  THEN CHOOSE i \in 1..Len(s) : s[i] = x /\ \A j \in 1..(i - 1) : s[j] # x
  ELSE Len(s) + 1

\* NewResults: all counters zero, the containers empty.  A rate is the pair
\* <<numerator, denominator>> of the float64 division that computes it.
NewResults ==
  [Total |-> 0, ErrSlice |-> <<>>, Success |-> 0, Failure |-> 0,
   SuccessRate |-> <<0, 1>>, FailureRate |-> <<0, 1>>, Info |-> {}]

\* fullWriteCheck: nil when files, mode and message are all set.
fullWriteCheck(wr) ==
  IF wr.filesNil THEN "files is nil"
  ELSE IF wr.mode = "nil" THEN "mode is nil"
  ELSE IF wr.message = "nil" THEN "message is nil"
  ELSE "ok"

\* ------------------------------------------------------------------------
\* The pool of open files.  A pool state is a record
\* [pool, lu, open]: the membership map, the last-used index and the set
\* of open handles.
\* ------------------------------------------------------------------------
EmptyPool == [p \in Paths |-> NilFile]
EmptyLastUsed == [p \in Paths |-> 0]

\* The number of entries the Range over openFilesPool counts.
PoolCount(pool) == Cardinality({p \in Paths : pool[p] # NilFile})

\* time.Now(): later than every timestamp stored so far.
Now(lu) == 1 + MaxOf({lu[p] : p \in Paths})

\* The code only compares timestamps (Before): the index is kept as the
\* ranks 1..k of its timestamps.
Compact(lu) ==
  [p \in Paths |->
     IF lu[p] = 0 THEN 0
     ELSE Cardinality({q \in Paths : lu[q] # 0 /\ lu[q] <= lu[p]})]

\* connLastUsed.Store(name, time.Now())
Touch(lu, n) == Compact([lu EXCEPT ![n] = Now(lu)])

\* connLastUsed.Delete(name)
Forget(lu, n) == Compact([lu EXCEPT ![n] = 0])

\* A scan that keeps the latest entry.
Newest(lu) ==
  IF \A p \in Paths : lu[p] = 0 THEN 0
  ELSE CHOOSE p \in Paths : \A q \in Paths : lu[q] <= lu[p]

\* The scan of connLastUsed for the oldest entry: 0 is the empty name the
\* scan starts from.
Oldest(lu) ==
  IF \A p \in Paths : lu[p] = 0 THEN 0
  ELSE CHOOSE p \in Paths :
         lu[p] # 0 /\ \A q \in Paths : lu[q] # 0 => lu[p] <= lu[q]

\* A pool that is full only above maxConns.
PoolFullStrict(pool, maxConns) == PoolCount(pool) > maxConns

\* The pool is full: the count against maxConns.
PoolFull(pool, maxConns) == PoolCount(pool) >= maxConns

\* GetConn, from the lookup to the eviction (the file is not nil).
\* hit: a pooled handle passed Stat and is returned.
GetConnLookup(P, maxConns, file) ==
  LET n == Name(file)
      e == P.pool[n]
  IN IF e # NilFile /\ e \in P.open
     THEN [hit |-> TRUE, h |-> e,
           P |-> [P EXCEPT !.lu = Touch(P.lu, n)]]
     ELSE
       LET P1 == IF e # NilFile
                 THEN [P EXCEPT !.pool[n] = NilFile, !.lu = Forget(P.lu, n)]
                 ELSE P
           oldest == Oldest(P1.lu)
           P2 == IF PoolFull(P1.pool, maxConns) /\ oldest # 0
                    /\ P1.pool[oldest] # NilFile
                 THEN [pool |-> [P1.pool EXCEPT ![oldest] = NilFile],
                       lu |-> Forget(P1.lu, oldest),
                       open |-> P1.open \ {P1.pool[oldest]}]
                 ELSE P1
       IN [hit |-> FALSE, h |-> file, P |-> P2]

\* GetConn, the store of the new connection.
GetConnStore(P, file) ==
  [P EXCEPT !.pool[Name(file)] = file, !.lu = Touch(P.lu, Name(file))]

\* CheckConnStatus: the file is pooled and the pooled handle passes Stat.
CheckConnStatus(P, file) ==
  /\ file # NilFile
  /\ P.pool[Name(file)] # NilFile
  /\ P.pool[Name(file)] \in P.open


\* ------------------------------------------------------------------------
\* Handles in use
\* ------------------------------------------------------------------------
\* The handles some variable of the program still refers to.
Referenced(pool, wkr) ==
  {pool[p] : p \in Paths} \cup {wkr[n].file : n \in Workers}
                          \cup {wkr[n].cur : n \in Workers}

\* os.OpenFile returns a handle no variable refers to yet.
NewHandle(p, pool, wkr) ==
  <<p, CHOOSE k \in 1..(NumPaths + 2 * NumCPU + 1) :
         /\ <<p, k>> \notin Referenced(pool, wkr)
         /\ \A j \in 1..(k - 1) : <<p, j>> \in Referenced(pool, wkr)>>

\* A handle opened by writeToFile that nothing refers to any more can never
\* be used again: it is dropped from the state.
Reachable(op, pool, wkr) ==
  {h \in op : h[2] = 0 \/ h \in Referenced(pool, wkr)}

\* A worker with no job.  file: the handle GetConn returned, cur: the handle
\* the attempt writes through, i: the counter of the retry loop, err: the
\* error of the attempt before ("" when there was none).
IdleWorker == [pc |-> "off", job |-> 0, file |-> NilFile, cur |-> NilFile,
               i |-> 0, err |-> ""]
NoJob == [conn |-> 0, tries |-> 0, out |-> "none"]
NoReturn == [kind |-> "none", err |-> "", via |-> "", results |-> NewResults]
IdleInv == [pc |-> "idle", kind |-> "", maxWorkers |-> 0, next |-> 0]
NoJobs == [q |-> <<>>, closed |-> FALSE]

NoRetry == [pc |-> "idle", tries |-> 0, base |-> 0, backoff |-> 0, i |-> 0,
            calls |-> 0, fails |-> 0, slept |-> <<>>, ret |-> "", err |-> 0]

\* No API call yet.  op: the operation, arg: its argument, err: the error
\* returned ("" is nil), h: the handle returned, ok: the boolean returned,
\* n: the calls made so far, at: the invocations of Write returned before it,
\* was: the pool, the timestamps and the open handles at the call.
NoApi == [op |-> "", arg |-> NilFile, err |-> "", h |-> NilFile, ok |-> FALSE,
          n |-> 0, at |-> 0,
          was |-> [pool |-> EmptyPool, lu |-> EmptyLastUsed, open |-> {}]]

Kinds == {"Write", "WriteWithTimeout", "StartWriteWithCancel"}

\* The handles: the one the caller made for each path, and the ones
\* os.OpenFile can return.
Handles == {<<p, k>> : p \in Paths, k \in 0..(NumPaths + 2 * NumCPU + 1)}

\* The capacity of the result channel and of the error channel.
ChanCap == 1

\* make(chan *Results, 1) and make(chan error, 1): both empty.  nres and
\* nerr count the sends made on each since it was made (history).
NoChannels == [result |-> <<>>, err |-> <<>>, nres |-> 0, nerr |-> 0]

\* A send on the channel does not block: the buffer has room.
CanSend(c, r) ==
  Len(IF r.kind = "error" THEN c.err ELSE c.result) < ChanCap

\* A goroutine that sends the error and goes on to send the results.
DeliverBoth(c, r) ==
  [c EXCEPT !.err = Append(@, r.err), !.nerr = @ + 1,
            !.result = Append(@, r.results), !.nres = @ + 1]

\* The goroutine of StartWriteWithCancel once Write has returned r: the
\* error is sent on errCh, or else the results on resultCh.
Deliver(c, r) ==
  IF r.kind = "error"
  THEN [c EXCEPT !.err = Append(@, r.err), !.nerr = @ + 1]
  ELSE [c EXCEPT !.result = Append(@, r.results), !.nres = @ + 1]

\* The content of a file is a sequence of chunks, each as long as the
\* message: "msg" is a copy of the message, "hole" the zero bytes a write
\* beyond the end leaves behind.  Unknown is the content of a file the
\* caller gives with whatever it holds: it stays unknown under writes, and
\* is known again once the file is truncated.
Unknown == <<"?">>
AnyDisk == [p \in Paths |-> Unknown]

\* The files start empty.
EmptyDisk == [p \in Paths |-> <<>>]

\* The handles the caller made (os.CreateTemp): no O_APPEND, offset 0.
CallerHandles == [h \in Handles |-> [append |-> FALSE, off |-> 0]]

\* An os.OpenFile that truncates whatever the mode.
OpenTruncating(mode) == [append |-> FALSE, trunc |-> TRUE]

\* getFileMode: "a" is O_RDWR|O_CREATE|O_APPEND, "w" is
\* O_RDWR|O_CREATE|O_TRUNC.
getFileMode(mode) == [append |-> mode = "a", trunc |-> mode = "w"]

\* Where a write through the handle h lands: at the end of the file with
\* O_APPEND, at the offset of the handle without.
WritePos(h, dk, f) ==
  IF dk[Name(h)] = Unknown THEN 0
  ELSE IF f[h].append THEN Len(dk[Name(h)]) ELSE f[h].off

\* The content c after one message written at the chunk pos (from 0).
WriteAt(c, pos) ==
  IF c = Unknown THEN Unknown ELSE
  [i \in 1..(IF Len(c) > pos THEN Len(c) ELSE pos + 1) |->
     IF i = pos + 1 THEN "msg" ELSE IF i <= Len(c) THEN c[i] ELSE "hole"]

\* The goroutines of the caller that call the setters.
Callers == 1..NumCallers

\* A caller in no call.  op, files, mode: the call it made last and its
\* argument; copy: the list it read (copy := *w.files); err: what the call
\* returned ("" is nil); n: the calls it has made.
NoCall == [pc |-> "idle", op |-> "", files |-> <<>>, mode |-> "", copy |-> <<>>,
           err |-> "", n |-> 0]
NoCalling == [c \in Callers |-> NoCall]

\* batcher has not been called.
NoSplit == [size |-> 0, out |-> <<>>, n |-> 0]

\* Contexts.  by: what made the context: context.Background(), the caller
\* (SetContext), WriteWithTimeout or StartWriteWithCancel; done: Done() is
\* closed.
Background == [by |-> "Background", done |-> FALSE]
\* A context the caller cancelled before attaching it.
Cancelled == [by |-> "SetContext", done |-> TRUE]
\* The context WithTimeout or WithCancel returns.
NewContext(kind) == [by |-> kind, done |-> FALSE]

\* The file lists of the initial states.  The valid paths differ in name
\* only: of the lists that differ by a renaming of the valid paths, the one
\* that first uses them in increasing order is taken.
FileLists ==
  {s \in SeqsUpTo(Targets, MaxFiles) :
     \A p, q \in Paths \ Faulty :
       p < q => FirstAt(s, Orig(p)) <= FirstAt(s, Orig(q))}

\* ------------------------------------------------------------------------
\* The initial states: a Writer as NewWriter returns it, for every
\* configuration within the bounds.  Every handle the caller made is open.
\* ------------------------------------------------------------------------
Init ==
  /\ w \in [files : FileLists, filesNil : {FALSE},
            mode : {"nil", "a"}, message : {"nil", "msg"},
            maxConns : 0..MaxPool, retries : 0..MaxRetries, backoff : {100}]
  /\ ctx = Background
  /\ openFilesPool = EmptyPool
  /\ connLastUsed = EmptyLastUsed
  /\ open = {Orig(p) : p \in Paths}
  /\ muHolder = 0
  /\ inv = IdleInv
  /\ jobs = NoJobs
  /\ results = NewResults
  /\ wk = [n \in Workers |-> IdleWorker]
  /\ log = <<>>
  /\ ret = NoReturn
  /\ calls = 0
  /\ rt = NoRetry
  /\ api = NoApi
  /\ ch = NoChannels
  /\ disk = AnyDisk
  /\ fd = CallerHandles
  /\ calling = NoCalling
  /\ split = NoSplit

\* ------------------------------------------------------------------------
\* The invocation surface
\* ------------------------------------------------------------------------
\* The context the invocation runs under: Write keeps w.ctx; WriteWithTimeout
\* and StartWriteWithCancel attach a new cancellable context (SetContext).
CallContext(kind, c) == IF kind = "Write" THEN c ELSE NewContext(kind)

\* The context once the invocation has returned: WriteWithTimeout runs its
\* deferred cancel.
ReturnContext(kind, c) ==
  IF kind = "WriteWithTimeout" THEN [c EXCEPT !.done = TRUE] ELSE c

\* A caller invokes Write(maxWorkers), WriteWithTimeout(maxWorkers, timeout)
\* or StartWriteWithCancel(w, maxWorkers).
Call(kind, maxWorkers) ==
  /\ inv.pc = "idle"
  /\ calls < MaxCalls
  /\ inv' = [pc |-> "entry", kind |-> kind, maxWorkers |-> maxWorkers, next |-> 0]
  /\ ctx' = CallContext(kind, ctx)
  /\ ret' = NoReturn
  /\ jobs' = NoJobs
  /\ log' = <<>>
  /\ ch' = NoChannels
  /\ UNCHANGED <<calling, split, disk, fd, api, rt, w, openFilesPool, connLastUsed, open,
                 muHolder, results, wk, calls>>

\* Preconditions that leave the context out.
WritePreconditionNoCtx ==
  IF fullWriteCheck(w) # "ok" THEN fullWriteCheck(w)
  ELSE IF Len(w.files) = 0 THEN "files is empty"
  ELSE "ok"

\* Write's precondition checks, in the order of the code.
WritePrecondition ==
  IF ctx.done THEN "context canceled"
  ELSE IF fullWriteCheck(w) # "ok" THEN fullWriteCheck(w)
  ELSE IF Len(w.files) = 0 THEN "files is empty"
  ELSE "ok"

\* A worker count that is not capped at the number of files.
WorkerCountUncapped(maxWorkers, nfiles) ==
  IF maxWorkers <= 0 THEN NumCPU ELSE maxWorkers

\* The worker count: maxWorkers, the CPU count when it is <= 0, capped at
\* the number of files.
WorkerCount(maxWorkers, nfiles) ==
  LET m == IF maxWorkers <= 0 THEN NumCPU ELSE maxWorkers
  IN IF m > nfiles THEN nfiles ELSE m

\* An engine that goes on with the Results of the earlier invocation.
KeepResults(earlier) == earlier

\* results := NewResults(), whatever an earlier invocation left.
StartResults(earlier) == NewResults

\* Write has returned r: under StartWriteWithCancel the goroutine that
\* called it sends r on one of the channels, and blocks while that channel
\* is full.
Handoff(kind, r) ==
  IF kind = "StartWriteWithCancel"
  THEN CanSend(ch, r) /\ ch' = Deliver(ch, r)
  ELSE UNCHANGED ch

\* Write, from its entry to the start of the worker pool: a precondition
\* error returns at once; otherwise a new Results, the jobs channel and the
\* workers are created.
WriteEntry ==
  /\ inv.pc = "entry"
  /\ IF WritePrecondition # "ok"
     THEN /\ ret' = [kind |-> "error", err |-> WritePrecondition,
                     via |-> inv.kind, results |-> NewResults]
          /\ inv' = IdleInv
          /\ calls' = calls + 1
          /\ ctx' = ReturnContext(inv.kind, ctx)
          /\ Handoff(inv.kind, ret')
          /\ UNCHANGED <<results, jobs, wk, log>>
     ELSE /\ results' = StartResults(results)
          /\ jobs' = NoJobs
          /\ wk' = [n \in Workers |->
                      IF n <= WorkerCount(inv.maxWorkers, Len(w.files))
                      THEN [IdleWorker EXCEPT !.pc = "recv"]
                      ELSE IdleWorker]
          /\ log' = [j \in 1..Len(w.files) |-> NoJob]
          /\ inv' = [inv EXCEPT !.pc = "enqueue", !.next = 1,
                                !.maxWorkers = WorkerCount(@, Len(w.files))]
          /\ UNCHANGED <<ret, calls, ctx, ch>>
  /\ UNCHANGED <<calling, split, disk, fd, api, rt, w, openFilesPool, connLastUsed, open, muHolder>>

\* The capacity of the jobs channel: make(chan *os.File, len(*w.files)).
JobsCap == Len(w.files)

\* The size of the batches: batchSize, or when it is <= 0 the length of
\* the list divided by the CPU count, 1 when that is 0.
BatchSize(numFiles, batchSize) ==
  IF batchSize > 0 THEN batchSize
  ELSE IF numFiles \div NumCPU = 0 THEN 1 ELSE numFiles \div NumCPU

\* A batcher that leaves out the batch shorter than the others.
batcherNoRemainder(files, batchSize) ==
  LET size == BatchSize(Len(files), batchSize)
  IN [i \in 1..(Len(files) \div size) |->
        SubSeq(files, (i - 1) * size + 1, i * size)]

\* batcher(batchSize) on the list files: numBatches slices of the list,
\* the slice i (from 0) being files[start:end] with start = i * batchSize
\* and end = start + batchSize, cut to the length of the list.
batcher(files, batchSize) ==
  LET size == BatchSize(Len(files), batchSize)
      numFiles == Len(files)
      numBatches == (numFiles + size - 1) \div size
  IN [i \in 1..numBatches |->
        LET start == (i - 1) * size
            end == IF start + size > numFiles THEN numFiles ELSE start + size
        IN SubSeq(files, start + 1, end)]

\* A loop over the batches from the last to the first.
RECURSIVE InOrderBackwards(_)
InOrderBackwards(batches) ==
  IF batches = <<>> THEN <<>>
  ELSE InOrderBackwards(Tail(batches)) \o Head(batches)

\* for _, batch := range batches { for _, file := range batch { ... } }:
\* the files in the order the two loops visit them.
RECURSIVE InOrder(_)
InOrder(batches) ==
  IF batches = <<>> THEN <<>>
  ELSE Head(batches) \o InOrder(Tail(batches))

\* The files in the order Write sends them on the jobs channel: through
\* the batches of batcher(0) for a list above the threshold, the list as it
\* is otherwise.
JobSource(files) ==
  IF Len(files) > BatchThreshold THEN InOrder(batcher(files, 0)) ELSE files

\* jobs <- file, one file after the other; the send blocks while the
\* channel is full.
Enqueue ==
  /\ inv.pc = "enqueue"
  /\ inv.next <= Len(JobSource(w.files))
  /\ Len(jobs.q) < JobsCap
  /\ jobs' = [jobs EXCEPT !.q = Append(@, <<inv.next, JobSource(w.files)[inv.next]>>)]
  /\ inv' = [inv EXCEPT !.next = @ + 1]
  /\ UNCHANGED <<calling, split, ch, disk, fd, api, rt, w, ctx, openFilesPool, connLastUsed, open, muHolder,
                 results, wk, log, ret, calls>>

\* close(jobs)
CloseJobs ==
  /\ inv.pc = "enqueue"
  /\ inv.next > Len(JobSource(w.files))
  /\ jobs' = [jobs EXCEPT !.closed = TRUE]
  /\ inv' = [inv EXCEPT !.pc = "wait"]
  /\ UNCHANGED <<calling, split, ch, disk, fd, api, rt, w, ctx, openFilesPool, connLastUsed, open, muHolder,
                 results, wk, log, ret, calls>>

\* A finalization that sets the total and leaves the rates as they are.
FinalizeNoRates(r, nfiles) == [r EXCEPT !.Total = nfiles]

\* The final results: the total and the rates.
Finalize(r, nfiles) ==
  [r EXCEPT !.Total = nfiles,
            !.SuccessRate = IF nfiles > 0 THEN <<r.Success, nfiles>> ELSE <<0, 1>>,
            !.FailureRate = IF nfiles > 0 THEN <<r.Failure, nfiles>> ELSE <<0, 1>>]

\* A wait that returns once the first worker has called wg.Done.
FirstDone == wk[1].pc \in {"off", "done"}

\* Every worker has called wg.Done.
AllDone == \A n \in Workers : wk[n].pc \in {"off", "done"}

\* wg.Wait returns; Write finalizes the results and returns them.
WriteReturn ==
  /\ inv.pc = "wait"
  /\ AllDone
  /\ results' = Finalize(results, Len(w.files))
  /\ ret' = [kind |-> "results", err |-> "", via |-> inv.kind,
             results |-> results']
  /\ inv' = IdleInv
  /\ calls' = calls + 1
  /\ ctx' = ReturnContext(inv.kind, ctx)
  /\ wk' = [n \in Workers |-> IdleWorker]
  /\ Handoff(inv.kind, ret')
  /\ UNCHANGED <<calling, split, disk, fd, api, rt, w, openFilesPool, connLastUsed, open,
                 muHolder, jobs, log>>

\* The cancellation signal fires: the timeout of WriteWithTimeout expires, or
\* the caller runs the cancel function of a cancellable context.
CtxCancel ==
  /\ ctx.by \in {"WriteWithTimeout", "StartWriteWithCancel"}
  /\ ~ctx.done
  /\ ctx' = [ctx EXCEPT !.done = TRUE]
  /\ UNCHANGED <<calling, split, ch, disk, fd, api, rt, w, openFilesPool, connLastUsed, open, muHolder, inv, jobs,
                 results, wk, log, ret, calls>>

\* SetContext(c), between invocations.
SetContext(c) ==
  /\ inv.pc = "idle"
  /\ calls < MaxCalls
  /\ c # ctx
  /\ ctx' = c
  /\ UNCHANGED <<calling, split, ch, disk, fd, api, rt, w, openFilesPool, connLastUsed, open, muHolder, inv, jobs,
                 results, wk, log, ret, calls>>


\* ------------------------------------------------------------------------
\* The retry wrapper
\* ------------------------------------------------------------------------
\* What retry does once the function has returned err ("" is nil), with i
\* the loop counter (0 when tries == 0, the call without retry):
\* "nil" and "raw" and "exhausted" return, "again" sleeps and loops.
\* A wrapper whose loop ends one iteration early.
RetryVerdictShort(i, err) ==
  IF err = "" THEN "nil"
  ELSE IF i = 0 THEN "raw"
  ELSE IF i <= 2 THEN "exhausted"
  ELSE "again"

\* A wrapper that wraps the error of the call without retry too.
RetryVerdictWrapped(i, err) ==
  IF err = "" THEN "nil"
  ELSE IF i <= 1 THEN "exhausted"
  ELSE "again"

RetryVerdict(i, err) ==
  IF err = "" THEN "nil"
  ELSE IF i = 0 THEN "raw"
  ELSE IF i = 1 THEN "exhausted"
  ELSE "again"

\* The backoff after a sleep: doubled while it is below 1000.
NextBackoff(backoff) == IF backoff < 1000 THEN backoff * 2 ELSE backoff

\* ------------------------------------------------------------------------
\* The workers of Write
\* ------------------------------------------------------------------------
PoolState == [pool |-> openFilesPool, lu |-> connLastUsed, open |-> open]

\* A failure branch that counts the failure and drops the error.
RecordFailureNoErr(r, file, err, wrapped) == [r EXCEPT !.Failure = @ + 1]

\* The failure branch of the worker: one error appended, Failure counted.
RecordFailure(r, file, err, wrapped) ==
  [r EXCEPT !.ErrSlice = Append(@, [file |-> Name(file), err |-> err,
                                    wrapped |-> wrapped]),
            !.Failure = @ + 1]

\* A success branch whose increment is lost.
RecordSuccessLost(r) == r

\* The success branch of the worker.
RecordSuccess(r) == [r EXCEPT !.Success = @ + 1]

\* results.Info[name] = err.Error()
AddInfo(r, name) == [r EXCEPT !.Info = @ \cup {name}]

\* A worker that returns from its loop at the first failed job.
AfterAttemptStop(n, r, err) ==
  LET me == wk[n]
      v == RetryVerdict(me.i, err)
  IN CASE v = "nil" ->
            [wk |-> [IdleWorker EXCEPT !.pc = "recv"],
             results |-> RecordSuccess(r),
             log |-> [log EXCEPT ![me.job].out = "success"]]
       [] v = "again" ->
            [wk |-> [me EXCEPT !.pc = "attempt", !.i = @ - 1, !.cur = NilFile,
                               !.err = err],
             results |-> r,
             log |-> log]
       [] OTHER ->
            [wk |-> [IdleWorker EXCEPT !.pc = "done"],
             results |-> RecordFailure(r, me.file, err, v = "exhausted"),
             log |-> [log EXCEPT ![me.job].out = "failure"]]

\* The worker after the function retried has returned err for its job, r
\* being the results as the attempt left them: the outcome is recorded, or
\* the loop goes on.
AfterAttempt(n, r, err) ==
  LET me == wk[n]
      v == RetryVerdict(me.i, err)
  IN CASE v = "nil" ->
            [wk |-> [IdleWorker EXCEPT !.pc = "recv"],
             results |-> RecordSuccess(r),
             log |-> [log EXCEPT ![me.job].out = "success"]]
       [] v = "again" ->
            [wk |-> [me EXCEPT !.pc = "attempt", !.i = @ - 1, !.cur = NilFile,
                               !.err = err],
             results |-> r,
             log |-> log]
       [] OTHER ->
            [wk |-> [IdleWorker EXCEPT !.pc = "recv"],
             results |-> RecordFailure(r, me.file, err, v = "exhausted"),
             log |-> [log EXCEPT ![me.job].out = "failure"]]

\* for file := range jobs: the next job, or the end of the worker once the
\* channel is closed and drained.
WorkerRecv(n) ==
  /\ wk[n].pc = "recv"
  /\ IF jobs.q # <<>>
     THEN /\ wk' = [wk EXCEPT ![n] = [IdleWorker EXCEPT
                       !.pc = "getconn", !.job = Head(jobs.q)[1],
                       !.file = Head(jobs.q)[2]]]
          /\ jobs' = [jobs EXCEPT !.q = Tail(@)]
     ELSE /\ jobs.closed
          /\ wk' = [wk EXCEPT ![n] = [IdleWorker EXCEPT !.pc = "done"]]
          /\ UNCHANGED jobs
  /\ UNCHANGED <<calling, split, ch, disk, fd, api, rt, w, ctx, openFilesPool, connLastUsed, open, muHolder, inv,
                 results, log, ret, calls>>

\* GetConn up to the eviction: a nil file is an error, recorded as the
\* failure of the job; a live pooled handle is returned.
WorkerGetConn(n) ==
  /\ wk[n].pc = "getconn"
  /\ LET me == wk[n] IN
     IF me.file = NilFile
     THEN /\ results' = RecordFailure(results, me.file,
                                      "nil file pointer received", FALSE)
          /\ log' = [log EXCEPT ![me.job].conn = @ + 1, ![me.job].out = "failure"]
          /\ wk' = [wk EXCEPT ![n] = [IdleWorker EXCEPT !.pc = "recv"]]
          /\ UNCHANGED <<openFilesPool, connLastUsed, open>>
     ELSE LET g == GetConnLookup(PoolState, w.maxConns, me.file) IN
          /\ wk' = [wk EXCEPT ![n] =
                      IF g.hit
                      THEN [me EXCEPT !.pc = "attempt", !.file = g.h,
                                      !.i = w.retries]
                      ELSE [me EXCEPT !.pc = "store"]]
          /\ openFilesPool' = g.P.pool
          /\ connLastUsed' = g.P.lu
          /\ open' = Reachable(g.P.open, g.P.pool, wk')
          /\ log' = [log EXCEPT ![me.job].conn = @ + 1]
          /\ UNCHANGED results
  /\ UNCHANGED <<calling, split, ch, disk, fd, api, rt, w, ctx, muHolder, inv, jobs, ret, calls>>

\* GetConn, the store of the new connection; the retry wrapper starts.
WorkerStore(n) ==
  /\ wk[n].pc = "store"
  /\ LET P == GetConnStore(PoolState, wk[n].file) IN
     /\ wk' = [wk EXCEPT ![n].pc = "attempt", ![n].i = w.retries]
     /\ openFilesPool' = P.pool
     /\ connLastUsed' = P.lu
     /\ open' = Reachable(P.open, P.pool, wk')
  /\ UNCHANGED <<calling, split, ch, disk, fd, api, rt, w, ctx, muHolder, inv, jobs, results, log, ret, calls>>

\* An attempt that does not look at the context.
DoneIgnored(c) == FALSE

\* select on w.ctx.Done(): the cancellation signal has fired.
Done(c) == c.done

\* writeToFile, from the check of the context to CheckConnStatus.
WorkerAttempt(n) ==
  /\ wk[n].pc = "attempt"
  /\ LET me == wk[n]
         lg == [log EXCEPT ![me.job].tries = @ + 1] IN
     IF Done(ctx)
     THEN LET a == AfterAttempt(n, results, "context canceled") IN
          /\ wk' = [wk EXCEPT ![n] = a.wk]
          /\ results' = a.results
          /\ log' = [lg EXCEPT ![me.job].out = a.log[me.job].out]
     ELSE /\ wk' = [wk EXCEPT ![n] =
                      IF CheckConnStatus(PoolState, me.file)
                      THEN [me EXCEPT !.pc = "write", !.cur = me.file]
                      ELSE [me EXCEPT !.pc = "open"]]
          /\ log' = lg
          /\ UNCHANGED results
  /\ open' = Reachable(open, openFilesPool, wk')
  /\ UNCHANGED <<calling, split, ch, disk, fd, api, rt, w, ctx, openFilesPool, connLastUsed, muHolder, inv, jobs,
                 ret, calls>>

\* Whether os.OpenFile can fail, and whether it can succeed, on a path.
OpenOutcomes(p) == IF p \in Faulty THEN BOOLEAN ELSE {TRUE}

\* Whether a write and flush through a handle can succeed: never through a
\* closed handle, always through an open handle of a valid file.
WriteOutcomes(h, op) ==
  IF h \notin op THEN {FALSE}
  ELSE IF Name(h) \in Faulty THEN BOOLEAN ELSE {TRUE}

\* writeToFile, os.OpenFile of a file that is not open in the pool.
WorkerOpen(n) ==
  /\ wk[n].pc = "open"
  /\ \E ok \in OpenOutcomes(Name(wk[n].file)) :
       LET me == wk[n] IN
       IF ok
       THEN LET newFile == NewHandle(Name(me.file), openFilesPool, wk)
                fileMode == getFileMode(w.mode) IN
            /\ wk' = [wk EXCEPT ![n].pc = "lock", ![n].cur = newFile]
            /\ open' = open \cup {newFile}
            /\ fd' = [fd EXCEPT ![newFile] =
                                  [append |-> fileMode.append, off |-> 0]]
            /\ disk' = IF fileMode.trunc
                       THEN [disk EXCEPT ![Name(me.file)] = <<>>]
                       ELSE disk
            /\ UNCHANGED <<results, log>>
       ELSE LET a == AfterAttempt(n, AddInfo(results, Name(me.file)), "open") IN
            /\ wk' = [wk EXCEPT ![n] = a.wk]
            /\ results' = a.results
            /\ log' = a.log
            /\ open' = Reachable(open, openFilesPool, wk')
            /\ UNCHANGED <<disk, fd>>
  /\ UNCHANGED <<calling, split, ch, api, rt, w, ctx, openFilesPool, connLastUsed, muHolder,
                 inv, jobs, ret, calls>>

\* writeToFile, w.mu.Lock and the store of the new file in the pool.
WorkerLock(n) ==
  /\ wk[n].pc = "lock"
  /\ muHolder = 0
  /\ muHolder' = n
  /\ openFilesPool' = [openFilesPool EXCEPT ![Name(wk[n].file)] = wk[n].cur]
  /\ wk' = [wk EXCEPT ![n].pc = "write"]
  /\ open' = Reachable(open, openFilesPool', wk')
  /\ UNCHANGED <<calling, split, ch, disk, fd, api, rt, w, ctx, connLastUsed, inv, jobs, results, log, ret, calls>>

\* A return of writeToFile that leaves w.mu locked.
KeepLocked(holder, n) == holder

\* The deferred w.mu.Unlock of the worker n, which holds w.mu when it
\* opened the file.
Unlock(holder, n) == IF holder = n THEN 0 ELSE holder

\* writeToFile, the buffered write and the flush, to the return of the
\* function: an error closes the file; the deferred unlock releases w.mu.
WorkerWrite(n) ==
  /\ wk[n].pc = "write"
  /\ \E ok \in WriteOutcomes(wk[n].cur, open) :
       LET me == wk[n]
           a == IF ok THEN AfterAttempt(n, results, "")
                ELSE AfterAttempt(n, AddInfo(results, Name(me.cur)), "write")
       IN /\ wk' = [wk EXCEPT ![n] = a.wk]
          /\ results' = a.results
          /\ log' = a.log
          /\ open' = Reachable(IF ok THEN open ELSE open \ {me.cur},
                               openFilesPool, wk')
          /\ disk' = IF ok
                     THEN [disk EXCEPT ![Name(me.cur)] =
                                         WriteAt(@, WritePos(me.cur, disk, fd))]
                     ELSE disk
          /\ fd' = IF ok
                   THEN [fd EXCEPT ![me.cur].off =
                                     IF fd[me.cur].append
                                        \/ disk[Name(me.cur)] = Unknown
                                     THEN @
                                     ELSE WritePos(me.cur, disk, fd) + 1]
                   ELSE fd
  /\ muHolder' = Unlock(muHolder, n)
  /\ UNCHANGED <<calling, split, ch, api, rt, w, ctx, openFilesPool, connLastUsed, inv, jobs,
                 ret, calls>>

\* ------------------------------------------------------------------------
\* The engine
\* ------------------------------------------------------------------------
Next ==
  \/ \E kind \in Kinds, maxWorkers \in 0..NumCPU : Call(kind, maxWorkers)
  \/ WriteEntry
  \/ Enqueue
  \/ CloseJobs
  \/ WriteReturn
  \/ CtxCancel
  \/ \E c \in {Background, Cancelled} : SetContext(c)
  \/ \E n \in Workers :
       \/ WorkerRecv(n)
       \/ WorkerGetConn(n)
       \/ WorkerStore(n)
       \/ WorkerAttempt(n)
       \/ WorkerOpen(n)
       \/ WorkerLock(n)
       \/ WorkerWrite(n)

Spec == Init /\ [][Next]_vars

\* The engine driven by plain Write calls only.
NextWrite ==
  \/ \E maxWorkers \in 0..NumCPU : Call("Write", maxWorkers)
  \/ WriteEntry
  \/ Enqueue
  \/ CloseJobs
  \/ WriteReturn
  \/ \E n \in Workers :
       \/ WorkerRecv(n)
       \/ WorkerGetConn(n)
       \/ WorkerStore(n)
       \/ WorkerAttempt(n)
       \/ WorkerOpen(n)
       \/ WorkerLock(n)
       \/ WorkerWrite(n)

SpecWrite == Init /\ [][NextWrite]_vars


\* ------------------------------------------------------------------------
\* The retry wrapper taken alone: retry(function, ...) run with every
\* retries and backoff within the bounds, around a function that fails or
\* succeeds at each call.  rt.calls counts the calls of the function,
\* rt.slept lists the sleeps, rt.err is the call whose error is returned.
\* ------------------------------------------------------------------------
\* The Writer the wrapper runs on: NewWriter with the retries and the
\* backoff given.
RetryWriter(tries, backoff) ==
  [files |-> <<>>, filesNil |-> FALSE, mode |-> "a", message |-> "msg",
   maxConns |-> MaxPool, retries |-> tries, backoff |-> backoff]

InitRetry ==
  /\ \E tries \in 0..MaxTries, backoff \in Backoffs :
       /\ w = RetryWriter(tries, backoff)
       /\ rt = [NoRetry EXCEPT !.pc = "call", !.tries = tries, !.base = backoff,
                               !.backoff = backoff, !.i = tries]
  /\ ctx = Background
  /\ openFilesPool = EmptyPool
  /\ connLastUsed = EmptyLastUsed
  /\ open = {Orig(p) : p \in Paths}
  /\ muHolder = 0
  /\ inv = IdleInv
  /\ jobs = NoJobs
  /\ results = NewResults
  /\ wk = [n \in Workers |-> IdleWorker]
  /\ log = <<>>
  /\ ret = NoReturn
  /\ calls = 0
  /\ api = NoApi
  /\ ch = NoChannels
  /\ disk = AnyDisk
  /\ fd = CallerHandles
  /\ calling = NoCalling
  /\ split = NoSplit

\* err := function(file, message, results, mu), and what the wrapper does
\* with err.
RetryCall ==
  /\ rt.pc = "call"
  /\ \E ok \in BOOLEAN :
       LET v == RetryVerdict(rt.i, IF ok THEN "" ELSE "error")
           called == [rt EXCEPT !.calls = @ + 1,
                                !.fails = IF ok THEN @ ELSE @ + 1]
       IN rt' = IF v = "again"
                THEN [called EXCEPT !.pc = "sleep"]
                ELSE [called EXCEPT !.pc = "returned", !.ret = v,
                                    !.err = IF ok THEN 0 ELSE called.calls]
  /\ UNCHANGED <<calling, split, ch, disk, fd, api, w, ctx, openFilesPool, connLastUsed, open, muHolder,
                 inv, jobs, results, wk, log, ret, calls>>

\* time.Sleep(backoff), the doubling of the backoff, and i--.
RetrySleep ==
  /\ rt.pc = "sleep"
  /\ rt' = [rt EXCEPT !.pc = "call", !.slept = Append(@, rt.backoff),
                      !.backoff = NextBackoff(@), !.i = @ - 1]
  /\ UNCHANGED <<calling, split, ch, disk, fd, api, w, ctx, openFilesPool, connLastUsed, open, muHolder,
                 inv, jobs, results, wk, log, ret, calls>>

NextRetry == RetryCall \/ RetrySleep

SpecRetry == InitRetry /\ [][NextRetry]_vars


\* ------------------------------------------------------------------------
\* Write over a list with one nil file among valid files.
\* ------------------------------------------------------------------------
\* The lists of two to MaxFiles + 1 targets: one nil file, the others valid
\* files, each once (the valid paths first used in increasing order).
NullLists ==
  {s \in SeqsUpTo(Targets, MaxFiles + 1) :
     /\ Len(s) >= 2
     /\ Cardinality({i \in 1..Len(s) : s[i] = NilFile}) = 1
     /\ \A i \in 1..Len(s) : Name(s[i]) \notin Faulty
     /\ \A i, j \in 1..Len(s) : s[i] = s[j] => i = j
     /\ \A p, q \in Paths \ Faulty :
          p < q => FirstAt(s, Orig(p)) <= FirstAt(s, Orig(q))}

InitNull ==
  /\ w \in [files : NullLists, filesNil : {FALSE}, mode : {"a"},
            message : {"msg"}, maxConns : 0..MaxPool, retries : 0..MaxRetries,
            backoff : {100}]
  /\ ctx = Background
  /\ openFilesPool = EmptyPool
  /\ connLastUsed = EmptyLastUsed
  /\ open = {Orig(p) : p \in Paths}
  /\ muHolder = 0
  /\ inv = IdleInv
  /\ jobs = NoJobs
  /\ results = NewResults
  /\ wk = [n \in Workers |-> IdleWorker]
  /\ log = <<>>
  /\ ret = NoReturn
  /\ calls = 0
  /\ rt = NoRetry
  /\ api = NoApi
  /\ ch = NoChannels
  /\ disk = AnyDisk
  /\ fd = CallerHandles
  /\ calling = NoCalling
  /\ split = NoSplit

SpecNull == InitNull /\ [][NextWrite]_vars


\* ------------------------------------------------------------------------
\* The pool API called directly, one call after the other, on an engine
\* that runs no Write: AddConn, RemoveConn, GetConn, CheckConnStatus,
\* CloseConn, CloseAllConns, ClearAll, ClearFiles and FactoryReset.
\* ------------------------------------------------------------------------
\* AddConn: a file not pooled yet is stored with its timestamp, whatever
\* the count of the pool.
AddConnOp(P, file) ==
  IF file = NilFile THEN [P |-> P, err |-> "nil file pointer received"]
  ELSE IF P.pool[Name(file)] # NilFile THEN [P |-> P, err |-> ""]
  ELSE [P |-> [P EXCEPT !.pool[Name(file)] = file,
                        !.lu = Touch(P.lu, Name(file))],
        err |-> ""]

\* RemoveConn: the pool entry is deleted.
RemoveConnOp(P, file) ==
  IF P.pool[Name(file)] # NilFile
  THEN [P |-> [P EXCEPT !.pool[Name(file)] = NilFile], err |-> ""]
  ELSE [P |-> P, err |-> "file not found"]

\* GetConn as a whole.
GetConnOp(P, maxConns, file) ==
  IF file = NilFile
  THEN [P |-> P, h |-> NilFile, err |-> "nil file pointer received"]
  ELSE LET g == GetConnLookup(P, maxConns, file)
       IN IF g.hit THEN [P |-> g.P, h |-> g.h, err |-> ""]
          ELSE [P |-> GetConnStore(g.P, file), h |-> file, err |-> ""]

\* Whether Close of a handle can return nil: never for a closed handle,
\* always for an open handle of a valid file.
CloseOutcomes(h, op) ==
  IF h \notin op THEN {FALSE}
  ELSE IF Name(h) \in Faulty THEN BOOLEAN ELSE {TRUE}

\* CloseConn: the entry and its timestamp are deleted, then the pooled
\* handle is closed; ok: Close returned nil.
CloseConnOp(P, file, ok) ==
  IF file = NilFile THEN [P |-> P, err |-> "file is nil"]
  ELSE IF P.pool[Name(file)] = NilFile
  THEN [P |-> P, err |-> "file not found in pool"]
  ELSE [P |-> [pool |-> [P.pool EXCEPT ![Name(file)] = NilFile],
               lu |-> Forget(P.lu, Name(file)),
               open |-> P.open \ {P.pool[Name(file)]}],
        err |-> IF ok THEN "" ELSE "error closing file"]

\* The pooled handles that pass Stat.
PooledOpen(P) == {P.pool[p] : p \in Paths} \cap P.open

\* The pooled handles whose Close can fail.
CanFail(P) == {h \in PooledOpen(P) : FALSE \in CloseOutcomes(h, P.open)}

\* A CloseAllConns that reports the handles already closed as errors.
CloseAllConnsStrict(P, failed) ==
  [P |-> [pool |-> EmptyPool,
          lu |-> Compact([p \in Paths |->
                            IF P.pool[p] # NilFile THEN 0 ELSE P.lu[p]]),
          open |-> P.open \ {P.pool[p] : p \in Paths}],
   err |-> IF failed # {}
              \/ \E p \in Paths : P.pool[p] # NilFile /\ P.pool[p] \notin P.open
           THEN "multiple errors closing files" ELSE ""]

\* A CloseAllConns that leaves the handles already closed in the pool.
CloseAllConnsSkipping(P, failed) ==
  [P |-> [pool |-> [p \in Paths |->
                      IF P.pool[p] \in P.open THEN NilFile ELSE P.pool[p]],
          lu |-> Compact([p \in Paths |->
                            IF P.pool[p] \in P.open THEN 0 ELSE P.lu[p]]),
          open |-> P.open \ {P.pool[p] : p \in Paths}],
   err |-> IF failed # {} THEN "multiple errors closing files" ELSE ""]

\* CloseAllConns: every entry of the pool is closed if it passes Stat, and
\* deleted with its timestamp; failed: the handles whose Close returned an
\* error other than already closed.
CloseAllConnsOp(P, failed) ==
  [P |-> [pool |-> EmptyPool,
          lu |-> Compact([p \in Paths |->
                            IF P.pool[p] # NilFile THEN 0 ELSE P.lu[p]]),
          open |-> P.open \ {P.pool[p] : p \in Paths}],
   err |-> IF failed # {} THEN "multiple errors closing files" ELSE ""]

\* ClearAll: both maps are replaced by empty ones.
ClearAllOp(P) == [P EXCEPT !.pool = EmptyPool, !.lu = EmptyLastUsed]

\* A ClearFiles that leaves the list as it is.
KeepFilesOp(wr) == wr

\* ClearFiles: the list is replaced by an empty one.
ClearFilesOp(wr) == [wr EXCEPT !.files = <<>>, !.filesNil = FALSE]

\* The record of an API call.
Called(op, arg, err, h, ok) ==
  [op |-> op, arg |-> arg, err |-> err, h |-> h, ok |-> ok,
   n |-> api.n + 1, at |-> calls, was |-> PoolState]

\* An API call can be made: no Write runs.
CanCall == inv.pc = "idle" /\ api.n < MaxOps

AddConn(file) ==
  /\ CanCall
  /\ LET r == AddConnOp(PoolState, file) IN
     /\ openFilesPool' = r.P.pool
     /\ connLastUsed' = r.P.lu
     /\ api' = Called("AddConn", file, r.err, NilFile, FALSE)
  /\ UNCHANGED <<calling, split, ch, disk, fd, rt, w, ctx, open, muHolder, inv, jobs, results, wk, log, ret,
                 calls>>

RemoveConn(file) ==
  /\ CanCall
  /\ LET r == RemoveConnOp(PoolState, file) IN
     /\ openFilesPool' = r.P.pool
     /\ connLastUsed' = r.P.lu
     /\ open' = r.P.open
     /\ api' = Called("RemoveConn", file, r.err, NilFile, FALSE)
  /\ UNCHANGED <<calling, split, ch, disk, fd, rt, w, ctx, muHolder, inv, jobs, results, wk, log, ret, calls>>

GetConn(file) ==
  /\ CanCall
  /\ LET r == GetConnOp(PoolState, w.maxConns, file) IN
     /\ openFilesPool' = r.P.pool
     /\ connLastUsed' = r.P.lu
     /\ open' = r.P.open
     /\ api' = Called("GetConn", file, r.err, r.h, FALSE)
  /\ UNCHANGED <<calling, split, ch, disk, fd, rt, w, ctx, muHolder, inv, jobs, results, wk, log, ret, calls>>

CheckConn(file) ==
  /\ CanCall
  /\ api' = Called("CheckConnStatus", file, "", NilFile,
                   CheckConnStatus(PoolState, file))
  /\ UNCHANGED <<calling, split, ch, disk, fd, rt, w, ctx, openFilesPool, connLastUsed, open, muHolder, inv,
                 jobs, results, wk, log, ret, calls>>

CloseConn(file) ==
  /\ CanCall
  /\ \E ok \in (IF file = NilFile THEN {TRUE}
                ELSE CloseOutcomes(openFilesPool[Name(file)], open)) :
       LET r == CloseConnOp(PoolState, file, ok) IN
       /\ openFilesPool' = r.P.pool
       /\ connLastUsed' = r.P.lu
       /\ open' = r.P.open
       /\ api' = Called("CloseConn", file, r.err, NilFile, FALSE)
  /\ UNCHANGED <<calling, split, ch, disk, fd, rt, w, ctx, muHolder, inv, jobs, results, wk, log, ret, calls>>

CloseAllConns ==
  /\ CanCall
  /\ \E failed \in SUBSET CanFail(PoolState) :
       LET r == CloseAllConnsOp(PoolState, failed) IN
       /\ openFilesPool' = r.P.pool
       /\ connLastUsed' = r.P.lu
       /\ open' = r.P.open
       /\ api' = Called("CloseAllConns", NilFile, r.err, NilFile, FALSE)
  /\ UNCHANGED <<calling, split, ch, disk, fd, rt, w, ctx, muHolder, inv, jobs, results, wk, log, ret, calls>>

ClearAll ==
  /\ CanCall
  /\ openFilesPool' = ClearAllOp(PoolState).pool
  /\ connLastUsed' = ClearAllOp(PoolState).lu
  /\ api' = Called("ClearAll", NilFile, "", NilFile, FALSE)
  /\ UNCHANGED <<calling, split, ch, disk, fd, rt, w, ctx, open, muHolder, inv, jobs, results, wk, log, ret,
                 calls>>

ClearFiles ==
  /\ CanCall
  /\ w' = ClearFilesOp(w)
  /\ api' = Called("ClearFiles", NilFile, "", NilFile, FALSE)
  /\ UNCHANGED <<calling, split, ch, disk, fd, rt, ctx, openFilesPool, connLastUsed, open, muHolder, inv,
                 jobs, results, wk, log, ret, calls>>

\* FactoryReset: CloseAllConns, and when it returned nil ClearAll and
\* ClearFiles.
FactoryReset ==
  /\ CanCall
  /\ \E failed \in SUBSET CanFail(PoolState) :
       LET r == CloseAllConnsOp(PoolState, failed)
           P == IF r.err = "" THEN ClearAllOp(r.P) ELSE r.P
       IN /\ openFilesPool' = P.pool
          /\ connLastUsed' = P.lu
          /\ open' = P.open
          /\ w' = IF r.err = "" THEN ClearFilesOp(w) ELSE w
          /\ api' = Called("FactoryReset", NilFile, r.err, NilFile, FALSE)
  /\ UNCHANGED <<calling, split, ch, disk, fd, rt, ctx, muHolder, inv, jobs, results, wk, log, ret, calls>>

\* The engine the pool API is called on.
InitPool ==
  /\ w \in [files : {<<Orig(1), Orig(2)>>}, filesNil : {FALSE}, mode : {"a"},
            message : {"msg"}, maxConns : 0..MaxPool, retries : {0},
            backoff : {100}]
  /\ ctx = Background
  /\ openFilesPool = EmptyPool
  /\ connLastUsed = EmptyLastUsed
  /\ open = {Orig(p) : p \in Paths}
  /\ muHolder = 0
  /\ inv = IdleInv
  /\ jobs = NoJobs
  /\ results = NewResults
  /\ wk = [n \in Workers |-> IdleWorker]
  /\ log = <<>>
  /\ ret = NoReturn
  /\ calls = 0
  /\ rt = NoRetry
  /\ api = NoApi
  /\ ch = NoChannels
  /\ disk = AnyDisk
  /\ fd = CallerHandles
  /\ calling = NoCalling
  /\ split = NoSplit

NextPool ==
  \/ \E file \in Targets : AddConn(file)
  \/ \E file \in Targets \ {NilFile} : RemoveConn(file)
  \/ \E file \in Targets : GetConn(file)
  \/ \E file \in Targets : CheckConn(file)
  \/ \E file \in Targets : CloseConn(file)
  \/ CloseAllConns
  \/ ClearAll
  \/ ClearFiles
  \/ FactoryReset

SpecPool == InitPool /\ [][NextPool]_vars


\* ------------------------------------------------------------------------
\* The configuration API: the setters, called between the invocations of
\* Write (with one worker), with AddConn and FactoryReset.
\* ------------------------------------------------------------------------
\* A SetMode without the check of the engine.
SetModeUnchecked(wr, mode) ==
  IF mode = "nil" THEN [w |-> wr, err |-> "mode is nil"]
  ELSE [w |-> [wr EXCEPT !.mode = mode], err |-> ""]

\* SetFiles(files): isNil says that the pointer given is nil.
SetFilesOp(wr, files, isNil) ==
  IF fullWriteCheck(wr) # "ok" THEN [w |-> wr, err |-> fullWriteCheck(wr)]
  ELSE IF isNil THEN [w |-> wr, err |-> "files is nil"]
  ELSE [w |-> [wr EXCEPT !.files = files], err |-> ""]

\* An AddFiles that puts the files given in the place of the list.
AddFilesReplacing(wr, files) ==
  IF fullWriteCheck(wr) # "ok" THEN [w |-> wr, err |-> fullWriteCheck(wr)]
  ELSE [w |-> [wr EXCEPT !.files = files], err |-> ""]

\* AddFiles(files): the files are appended to a copy of the list.
AddFilesOp(wr, files) ==
  IF fullWriteCheck(wr) # "ok" THEN [w |-> wr, err |-> fullWriteCheck(wr)]
  ELSE [w |-> [wr EXCEPT !.files = @ \o files], err |-> ""]

\* SetMode(mode): "nil" is the nil pointer.
SetModeOp(wr, mode) ==
  IF fullWriteCheck(wr) # "ok" THEN [w |-> wr, err |-> fullWriteCheck(wr)]
  ELSE IF mode = "nil" THEN [w |-> wr, err |-> "mode is nil"]
  ELSE [w |-> [wr EXCEPT !.mode = mode], err |-> ""]

\* A SetMessage without the check of the engine.
SetMessageUnchecked(wr, message) ==
  IF message = "nil" THEN [w |-> wr, err |-> "message is nil"]
  ELSE [w |-> [wr EXCEPT !.message = message], err |-> ""]

\* SetMessage(message): "nil" is the nil pointer.
SetMessageOp(wr, message) ==
  IF fullWriteCheck(wr) # "ok" THEN [w |-> wr, err |-> fullWriteCheck(wr)]
  ELSE IF message = "nil" THEN [w |-> wr, err |-> "message is nil"]
  ELSE [w |-> [wr EXCEPT !.message = message], err |-> ""]

SetRetriesOp(wr, retries) ==
  IF fullWriteCheck(wr) # "ok" THEN [w |-> wr, err |-> fullWriteCheck(wr)]
  ELSE [w |-> [wr EXCEPT !.retries = retries], err |-> ""]

SetBackoffOp(wr, backoff) ==
  IF fullWriteCheck(wr) # "ok" THEN [w |-> wr, err |-> fullWriteCheck(wr)]
  ELSE [w |-> [wr EXCEPT !.backoff = backoff], err |-> ""]

SetMaxPoolOp(wr, maxPool) ==
  IF fullWriteCheck(wr) # "ok" THEN [w |-> wr, err |-> fullWriteCheck(wr)]
  ELSE [w |-> [wr EXCEPT !.maxConns = maxPool], err |-> ""]

\* A setter is called: r is what it made of the Writer.
Setter(op, r) ==
  /\ w' = r.w
  /\ api' = Called(op, NilFile, r.err, NilFile, FALSE)
  /\ UNCHANGED <<calling, split, ch, disk, fd, rt, ctx, openFilesPool, connLastUsed, open, muHolder, inv,
                 jobs, results, wk, log, ret, calls>>

\* The lists given to SetFiles and AddFiles.
NewLists == {<<Orig(1)>>, <<Orig(2)>>}

SetFiles ==
  \E files \in NewLists \cup {<<>>}, isNil \in BOOLEAN :
    /\ CanCall
    /\ isNil => files = <<>>
    /\ Setter("SetFiles", SetFilesOp(w, files, isNil))

AddFiles ==
  \E files \in NewLists :
    /\ CanCall
    /\ Len(w.files) + Len(files) <= MaxFiles
    /\ Setter("AddFiles", AddFilesOp(w, files))

SetMode ==
  \E mode \in {"nil", "a", "w"} :
    /\ CanCall
    /\ Setter("SetMode", SetModeOp(w, mode))

SetMessage ==
  \E message \in {"nil", "msg"} :
    /\ CanCall
    /\ Setter("SetMessage", SetMessageOp(w, message))

SetRetries ==
  \E retries \in {0, MaxRetries} :
    /\ CanCall
    /\ Setter("SetRetries", SetRetriesOp(w, retries))

SetBackoff ==
  \E backoff \in {100, 1000} :
    /\ CanCall
    /\ Setter("SetBackoff", SetBackoffOp(w, backoff))

SetMaxPool ==
  \E maxPool \in {1, MaxPool} :
    /\ CanCall
    /\ Setter("SetMaxPool", SetMaxPoolOp(w, maxPool))

\* The engines the configuration API is called on: with and without a mode
\* and a message.
InitConfig ==
  /\ w \in [files : {<<>>, <<Orig(1)>>}, filesNil : {FALSE},
            mode : {"nil", "a"}, message : {"nil", "msg"}, maxConns : {1},
            retries : {0}, backoff : {100}]
  /\ ctx = Background
  /\ openFilesPool = EmptyPool
  /\ connLastUsed = EmptyLastUsed
  /\ open = {Orig(p) : p \in Paths}
  /\ muHolder = 0
  /\ inv = IdleInv
  /\ jobs = NoJobs
  /\ results = NewResults
  /\ wk = [n \in Workers |-> IdleWorker]
  /\ log = <<>>
  /\ ret = NoReturn
  /\ calls = 0
  /\ rt = NoRetry
  /\ api = NoApi
  /\ ch = NoChannels
  /\ disk = AnyDisk
  /\ fd = CallerHandles
  /\ calling = NoCalling
  /\ split = NoSplit

NextConfig ==
  \/ SetFiles
  \/ AddFiles
  \/ SetMode
  \/ SetMessage
  \/ SetRetries
  \/ SetBackoff
  \/ SetMaxPool
  \/ \E file \in {Orig(1)} : AddConn(file)
  \/ FactoryReset
  \/ Call("Write", 1)
  \/ WriteEntry
  \/ Enqueue
  \/ CloseJobs
  \/ WriteReturn
  \/ \E n \in Workers :
       \/ WorkerRecv(n)
       \/ WorkerGetConn(n)
       \/ WorkerStore(n)
       \/ WorkerAttempt(n)
       \/ WorkerOpen(n)
       \/ WorkerLock(n)
       \/ WorkerWrite(n)

SpecConfig == InitConfig /\ [][NextConfig]_vars


\* ------------------------------------------------------------------------
\* The engine with its goroutines scheduled: every invocation form, the
\* cancellation signal, and a caller that may read the channels of
\* StartWriteWithCancel or leave them unread.  The files start empty.
\* ------------------------------------------------------------------------
\* The caller receives from the result channel or from the error channel.
Receive ==
  /\ \/ ch.result # <<>> /\ ch' = [ch EXCEPT !.result = Tail(@)]
     \/ ch.err # <<>> /\ ch' = [ch EXCEPT !.err = Tail(@)]
  /\ UNCHANGED <<calling, split, disk, fd, api, rt, w, ctx, openFilesPool, connLastUsed, open,
                 muHolder, inv, jobs, results, wk, log, ret, calls>>

\* A step of the goroutine that runs Write or of one of its workers.
Run ==
  \/ WriteEntry
  \/ Enqueue
  \/ CloseJobs
  \/ WriteReturn
  \/ \E n \in Workers :
       \/ WorkerRecv(n)
       \/ WorkerGetConn(n)
       \/ WorkerStore(n)
       \/ WorkerAttempt(n)
       \/ WorkerOpen(n)
       \/ WorkerLock(n)
       \/ WorkerWrite(n)

InitLive ==
  /\ w \in [files : FileLists, filesNil : {FALSE},
            mode : {"nil", "a"}, message : {"msg"},
            maxConns : {1, MaxPool}, retries : {0, MaxRetries}, backoff : {100}]
  /\ ctx = Background
  /\ openFilesPool = EmptyPool
  /\ connLastUsed = EmptyLastUsed
  /\ open = {Orig(p) : p \in Paths}
  /\ muHolder = 0
  /\ inv = IdleInv
  /\ jobs = NoJobs
  /\ results = NewResults
  /\ wk = [n \in Workers |-> IdleWorker]
  /\ log = <<>>
  /\ ret = NoReturn
  /\ calls = 0
  /\ rt = NoRetry
  /\ api = NoApi
  /\ ch = NoChannels
  /\ disk = EmptyDisk
  /\ fd = CallerHandles
  /\ calling = NoCalling
  /\ split = NoSplit

NextLive ==
  \/ \E kind \in Kinds, maxWorkers \in 0..NumCPU :
       calls < MaxLiveCalls /\ Call(kind, maxWorkers)
  \/ CtxCancel
  \/ Receive
  \/ Run

\* The scheduler runs a goroutine that can take a step; the caller is under
\* no obligation to call, to cancel or to read.
SpecLive == InitLive /\ [][NextLive]_vars /\ WF_vars(Run)


\* ------------------------------------------------------------------------
\* Write in append mode over files that start empty, with their content
\* followed.
\* ------------------------------------------------------------------------
InitDisk ==
  /\ w \in [files : FileLists, filesNil : {FALSE}, mode : {"a"},
            message : {"msg"}, maxConns : 0..MaxPool,
            retries : {0, MaxRetries}, backoff : {100}]
  /\ ctx = Background
  /\ openFilesPool = EmptyPool
  /\ connLastUsed = EmptyLastUsed
  /\ open = {Orig(p) : p \in Paths}
  /\ muHolder = 0
  /\ inv = IdleInv
  /\ jobs = NoJobs
  /\ results = NewResults
  /\ wk = [n \in Workers |-> IdleWorker]
  /\ log = <<>>
  /\ ret = NoReturn
  /\ calls = 0
  /\ rt = NoRetry
  /\ api = NoApi
  /\ ch = NoChannels
  /\ disk = EmptyDisk
  /\ fd = CallerHandles
  /\ calling = NoCalling
  /\ split = NoSplit

SpecDisk == InitDisk /\ [][NextWrite]_vars


\* ------------------------------------------------------------------------
\* The setters called by goroutines that run at the same time.  A setter
\* takes no lock: between its reads of the Writer and its store of the
\* field, the other callers take their steps.
\* ------------------------------------------------------------------------
\* The caller c calls SetFiles(files), AddFiles(files) or SetMode(mode).
SetterBegin(c) ==
  /\ calling[c].pc = "idle"
  /\ calling[c].n < MaxCalls
  /\ \E op \in {"SetFiles", "AddFiles", "SetMode"}, files \in NewLists,
        mode \in {"a", "w"} :
       /\ op = "SetMode" => files = <<Orig(1)>>
       /\ op # "SetMode" => mode = "a"
       /\ calling' = [calling EXCEPT ![c] =
                        [NoCall EXCEPT !.pc = "check", !.op = op, !.files = files,
                                       !.mode = mode, !.n = calling[c].n]]
  /\ UNCHANGED <<split, ch, disk, fd, api, rt, w, ctx, openFilesPool,
                 connLastUsed, open, muHolder, inv, jobs, results, wk, log, ret,
                 calls>>

\* The setter's reads: fullWriteCheck, which returns its error, and in
\* AddFiles copy := *w.files.
SetterCheck(c) ==
  /\ calling[c].pc = "check"
  /\ calling' = [calling EXCEPT ![c] =
                   IF fullWriteCheck(w) # "ok"
                   THEN [@ EXCEPT !.pc = "idle", !.err = fullWriteCheck(w),
                                  !.n = @ + 1]
                   ELSE [@ EXCEPT !.pc = "store", !.copy = w.files]]
  /\ UNCHANGED <<split, ch, disk, fd, api, rt, w, ctx, openFilesPool,
                 connLastUsed, open, muHolder, inv, jobs, results, wk, log, ret,
                 calls>>

\* The Writer after the store of the setter: w.files = files,
\* w.files = &copy (the list read, with the files appended) or w.mode = mode.
Stored(wr, call) ==
  CASE call.op = "SetFiles" -> [wr EXCEPT !.files = call.files]
    [] call.op = "AddFiles" -> [wr EXCEPT !.files = call.copy \o call.files]
    [] OTHER -> [wr EXCEPT !.mode = call.mode]

\* The setter's store, and its return of nil.
SetterStore(c) ==
  /\ calling[c].pc = "store"
  /\ w' = Stored(w, calling[c])
  /\ calling' = [calling EXCEPT ![c].pc = "idle", ![c].n = @ + 1]
  /\ UNCHANGED <<split, ch, disk, fd, api, rt, ctx, openFilesPool,
                 connLastUsed, open, muHolder, inv, jobs, results, wk, log, ret,
                 calls>>

InitSetters ==
  /\ w \in [files : {<<>>, <<Orig(1)>>}, filesNil : {FALSE},
            mode : {"nil", "a"}, message : {"nil", "msg"}, maxConns : {1},
            retries : {0}, backoff : {100}]
  /\ ctx = Background
  /\ openFilesPool = EmptyPool
  /\ connLastUsed = EmptyLastUsed
  /\ open = {Orig(p) : p \in Paths}
  /\ muHolder = 0
  /\ inv = IdleInv
  /\ jobs = NoJobs
  /\ results = NewResults
  /\ wk = [n \in Workers |-> IdleWorker]
  /\ log = <<>>
  /\ ret = NoReturn
  /\ calls = 0
  /\ rt = NoRetry
  /\ api = NoApi
  /\ ch = NoChannels
  /\ disk = AnyDisk
  /\ fd = CallerHandles
  /\ calling = NoCalling
  /\ split = NoSplit

NextSetters ==
  \E c \in Callers :
    \/ SetterBegin(c)
    \/ SetterCheck(c)
    \/ SetterStore(c)

SpecSetters == InitSetters /\ [][NextSetters]_vars


\* ------------------------------------------------------------------------
\* The batcher, and the dispatcher of Write over lists of up to MaxBatch
\* files: the entry of Write and its sends on the jobs channel, which has
\* room for every job, so that the channel holds the jobs in the order of
\* the sends.
\* ------------------------------------------------------------------------
\* The lists given (the valid paths first used in increasing order).
BatchLists ==
  {s \in SeqsUpTo(Targets, MaxBatch) :
     \A p, q \in Paths \ Faulty :
       p < q => FirstAt(s, Orig(p)) <= FirstAt(s, Orig(q))}

\* w.batcher(batchSize) is called.
Batcher(batchSize) ==
  /\ inv.pc = "idle"
  /\ split.n < MaxCalls
  /\ split' = [size |-> batchSize, out |-> batcher(w.files, batchSize),
               n |-> split.n + 1]
  /\ UNCHANGED <<calling, ch, disk, fd, api, rt, w, ctx, openFilesPool,
                 connLastUsed, open, muHolder, inv, jobs, results, wk, log, ret,
                 calls>>

InitBatch ==
  /\ w \in [files : BatchLists, filesNil : {FALSE}, mode : {"a"},
            message : {"msg"}, maxConns : {MaxPool}, retries : {0},
            backoff : {100}]
  /\ ctx = Background
  /\ openFilesPool = EmptyPool
  /\ connLastUsed = EmptyLastUsed
  /\ open = {Orig(p) : p \in Paths}
  /\ muHolder = 0
  /\ inv = IdleInv
  /\ jobs = NoJobs
  /\ results = NewResults
  /\ wk = [n \in Workers |-> IdleWorker]
  /\ log = <<>>
  /\ ret = NoReturn
  /\ calls = 0
  /\ rt = NoRetry
  /\ api = NoApi
  /\ ch = NoChannels
  /\ disk = AnyDisk
  /\ fd = CallerHandles
  /\ calling = NoCalling
  /\ split = NoSplit

NextBatch ==
  \/ \E batchSize \in -1..(MaxBatch + 1) : Batcher(batchSize)
  \/ \E maxWorkers \in 0..NumCPU : Call("Write", maxWorkers)
  \/ WriteEntry
  \/ Enqueue
  \/ CloseJobs

SpecBatch == InitBatch /\ [][NextBatch]_vars


\* ------------------------------------------------------------------------
\* Write in truncate mode over files that start empty, with their content
\* followed.
\* ------------------------------------------------------------------------
InitTrunc ==
  /\ w \in [files : FileLists, filesNil : {FALSE}, mode : {"w"},
            message : {"msg"}, maxConns : {1, MaxPool},
            retries : {0, MaxRetries}, backoff : {100}]
  /\ ctx = Background
  /\ openFilesPool = EmptyPool
  /\ connLastUsed = EmptyLastUsed
  /\ open = {Orig(p) : p \in Paths}
  /\ muHolder = 0
  /\ inv = IdleInv
  /\ jobs = NoJobs
  /\ results = NewResults
  /\ wk = [n \in Workers |-> IdleWorker]
  /\ log = <<>>
  /\ ret = NoReturn
  /\ calls = 0
  /\ rt = NoRetry
  /\ api = NoApi
  /\ ch = NoChannels
  /\ disk = EmptyDisk
  /\ fd = CallerHandles
  /\ calling = NoCalling
  /\ split = NoSplit

SpecTrunc == InitTrunc /\ [][NextWrite]_vars


\* ------------------------------------------------------------------------
\* The properties
\* ------------------------------------------------------------------------
Configured == fullWriteCheck(w) = "ok"
Returned == inv.pc = "idle" /\ ret.kind = "results"
Failed == inv.pc = "idle" /\ ret.kind = "error"
ValidTargets == {Orig(p) : p \in Paths \ Faulty}
JobsWith(out) == {j \in DOMAIN log : log[j].out = out}
Min(a, b) == IF a < b THEN a ELSE b
RECURSIVE Pow2(_)
Pow2(k) == IF k = 0 THEN 1 ELSE 2 * Pow2(k - 1)

\* C1: every Write that returns Results returns them with
\* Success + Failure = Total and Total = the number of targets.
C1_CountsAddUp ==
  Returned =>
    /\ ret.results.Success + ret.results.Failure = ret.results.Total
    /\ ret.results.Total = Len(w.files)

\* C1, its case: a Write of two targets returned one success and one failure.
C1_Witness ==
  /\ Returned
  /\ ret.results.Success = 1
  /\ ret.results.Failure = 1

\* C2: the pool never holds more entries than maxConns (stated for the
\* capacities of at least 1: with capacity 0 GetConn admits a file too).
C2_PoolBound ==
  w.maxConns >= 1 => PoolCount(openFilesPool) <= w.maxConns

\* C3: a Write (no cancellation) whose targets are all valid, writable files
\* reports every target a success, no failure and an empty ErrSlice, whatever
\* the workers, the pool capacity (stated for the capacities of at least 1)
\* and the retries.
C3_AllValidSucceed ==
  (/\ Returned
   /\ ret.via = "Write"
   /\ ~ctx.done
   /\ w.maxConns >= 1
   /\ \A i \in 1..Len(w.files) : w.files[i] \in ValidTargets)
  => /\ ret.results.Success = Len(w.files)
     /\ ret.results.Failure = 0
     /\ ret.results.ErrSlice = <<>>

\* C4: around a function that fails at every call the wrapper calls it
\* exactly retries times (retries >= 1) and returns the exhaustion error;
\* with retries = 0 it calls it exactly once; it never returns without a call.
C4_RetryBound ==
  rt.pc = "returned" =>
    /\ rt.calls >= 1
    /\ rt.fails = rt.calls =>
         /\ rt.calls = (IF rt.tries = 0 THEN 1 ELSE rt.tries)
         /\ rt.ret = (IF rt.tries = 0 THEN "raw" ELSE "exhausted")

\* C4, its case: three retries, three failed calls, exhaustion.
C4_Witness ==
  /\ rt.pc = "returned"
  /\ rt.tries = 3
  /\ rt.fails = 3
  /\ rt.ret = "exhausted"

\* C5: the delay slept after the failed attempt i (from 0) is
\* min(base * 2^i, 1000) ms, so no sleep is longer than 1000 ms.
C5_BackoffCapped ==
  \A k \in 1..Len(rt.slept) :
    rt.slept[k] = Min(rt.base * Pow2(k - 1), 1000)

\* C6: the second of two Writes in sequence returns Results of its own: the
\* total is the number of targets and the counts are those of this
\* invocation; it returns an error only for a cancelled context.
C6_SecondWriteFresh ==
  (inv.pc = "idle" /\ calls = 2 /\ Configured /\ Len(w.files) > 0) =>
    IF ret.kind = "results"
    THEN /\ ret.results.Total = Len(w.files)
         /\ ret.results.Success = Cardinality(JobsWith("success"))
         /\ ret.results.Failure = Cardinality(JobsWith("failure"))
         /\ Len(ret.results.ErrSlice) <= Len(w.files)
    ELSE ctx.done

\* C6, its case: the second Write has returned results with a success.
C6_Witness ==
  /\ Returned
  /\ calls = 2
  /\ ret.via = "Write"
  /\ ret.results.Success >= 1
  /\ ret.results.Total = 2

\* C7: once an invocation has completed, a Write of a configured engine with
\* targets dispatches work.  (Stated for an earlier invocation that returned
\* its Results; the contexts the caller cancelled itself, with SetContext or
\* the cancel function, are left out.)
C7_ReadyAfterCompletion ==
  [][(/\ inv.pc = "entry"
      /\ inv.kind = "Write"
      /\ calls >= 1
      /\ results.Total > 0
      /\ Configured
      /\ Len(w.files) > 0
      /\ ctx.by \notin {"SetContext", "StartWriteWithCancel"}
      /\ inv'.pc # "entry")
     => inv'.pc = "enqueue"]_vars

\* C8: a Write entered with the cancellation signal triggered returns the
\* cancellation error and no Results, starts no worker, enqueues no job and
\* leaves the pool, the handles and the Writer as they were.
C8_CancelledAtEntry ==
  [][(inv.pc = "entry" /\ ctx.done /\ inv'.pc # "entry")
     => /\ ret'.kind = "error"
        /\ ret'.err = "context canceled"
        /\ ret'.results = NewResults
        /\ inv'.pc = "idle"
        /\ UNCHANGED <<w, openFilesPool, connLastUsed, open, muHolder, jobs,
                       results, wk, log>>]_vars

\* C8, its case: a Write of a configured engine with targets returned the
\* cancellation error.
C8_Witness ==
  /\ Failed
  /\ ret.via = "Write"
  /\ ret.err = "context canceled"
  /\ Configured
  /\ Len(w.files) > 0

PreconditionErrors ==
  {"context canceled", "files is nil", "mode is nil", "message is nil",
   "files is empty"}

MaxAttempts == IF w.retries = 0 THEN 1 ELSE w.retries

\* C10: in one Write every target is taken and attempted exactly once,
\* acquisition then the retried write when the acquisition succeeded, whatever
\* became of the other targets.
C10_EveryTargetOnce ==
  /\ \A j \in DOMAIN log : log[j].conn <= 1 /\ log[j].tries <= MaxAttempts
  /\ Returned =>
       /\ DOMAIN log = 1..Len(w.files)
       /\ \A j \in DOMAIN log :
            /\ log[j].conn = 1
            /\ log[j].out \in {"success", "failure"}
            /\ IF w.files[j] = NilFile
               THEN log[j].tries = 0 /\ log[j].out = "failure"
               ELSE log[j].tries >= 1
            /\ (log[j].out = "failure" /\ w.files[j] # NilFile)
                 => log[j].tries = MaxAttempts

\* C10, its case: the first target failed in acquisition, the second after
\* its retries, and a Write with one worker still attempted both.
C10_Witness ==
  /\ Returned
  /\ Len(w.files) = 2
  /\ w.files[1] = NilFile
  /\ log[2].out = "failure"
  /\ log[2].tries = 2

\* C11: a Write (not cancelled) over one nil file among valid files returns
\* Results that count the nil file as the one failure, with the error that
\* names the nil file, every valid file as a success, and the nil file in the
\* total (stated for the capacities of at least 1).
C11_NullCounted ==
  (/\ Returned
   /\ ret.via = "Write"
   /\ ~ctx.done
   /\ w.maxConns >= 1
   /\ w.files \in NullLists)
  => /\ ret.results.Failure = 1
     /\ ret.results.Success = Len(w.files) - 1
     /\ ret.results.Total = Len(w.files)
     /\ Len(ret.results.ErrSlice) = 1
     /\ ret.results.ErrSlice[1].err = "nil file pointer received"

\* C12: Write sets the total and the rates, and returns its Results, only in
\* a step taken with the jobs channel closed and empty and every worker
\* finished; the Results are the ones returned, and nothing changes them
\* while no invocation runs.
C12_Barrier ==
  [][/\ ((ret'.kind = "results" /\ ret.kind # "results")
          \/ (results' # results /\ results'.Total > 0))
         => /\ jobs.closed
            /\ jobs.q = <<>>
            /\ \A n \in Workers : wk[n].pc \in {"off", "done"}
            /\ results.Total = 0
            /\ results'.Total = Len(w.files)
            /\ ret'.kind = "results"
            /\ ret'.results = results'
     /\ inv.pc = "idle" => results' = results]_vars

\* C12, its case: a Write of two targets has returned, after its workers
\* recorded both.
C12_Witness ==
  /\ Returned
  /\ jobs.closed
  /\ ret.results = results
  /\ ret.results.Total = 2
  /\ ret.results.Success + ret.results.Failure = 2

\* A call of the pool API has just returned.
ApiStep(op) == api'.n # api.n /\ api'.op = op

\* The entries a GetConn step evicted: pooled at the call, other than the
\* target, and gone from the pool.
Evicted ==
  {p \in Paths \ {Name(api'.arg)} :
     openFilesPool[p] # NilFile /\ openFilesPool'[p] = NilFile}

\* The entries of the pool GetConn chooses among: all but the target.
Current == {p \in Paths \ {Name(api'.arg)} : openFilesPool[p] # NilFile}

\* C13: a GetConn that evicts does so for a target with no live pooled
\* handle and a pool at capacity; it removes and closes one entry, the one
\* with the smallest timestamp among the entries in the pool; a lookup that
\* finds a live handle gives the target the latest timestamp.
C13_EvictsOldest ==
  [][(ApiStep("GetConn") /\ api'.err = "") =>
       LET t == Name(api'.arg)
           hit == openFilesPool[t] # NilFile /\ openFilesPool[t] \in open
       IN /\ Cardinality(Evicted) <= 1
          /\ Evicted # {} => (~hit /\ Cardinality(Current) >= w.maxConns)
          /\ \A v \in Evicted :
               /\ openFilesPool[v] \notin open'
               /\ connLastUsed'[v] = 0
               /\ \A q \in Current :
                    connLastUsed[q] # 0 /\ connLastUsed[v] <= connLastUsed[q]
          /\ hit => /\ Evicted = {}
                    /\ api'.h = openFilesPool[t]
                    /\ \A q \in Paths \ {t} : connLastUsed'[q] < connLastUsed'[t]]_vars

\* C13, its case: with capacity 2 and two live entries, GetConn of a third
\* file evicted and closed the older one.
C13_Witness ==
  /\ api.op = "GetConn"
  /\ api.arg # NilFile
  /\ w.maxConns = 2
  /\ PoolCount(api.was.pool) = 2
  /\ api.was.pool[Name(api.arg)] = NilFile
  /\ \E v \in Paths :
       /\ api.was.pool[v] \in api.was.open
       /\ openFilesPool[v] = NilFile
       /\ api.was.pool[v] \notin open
       /\ \A q \in Paths : api.was.lu[q] # 0 => api.was.lu[v] <= api.was.lu[q]

\* C14: GetConn of a file that is not nil returns an open handle of that
\* file, the one the pool then holds (stated for the capacities of at least 1).
C14_GetConnUsable ==
  (api.op = "GetConn" /\ api.arg # NilFile /\ w.maxConns >= 1) =>
    /\ api.err = ""
    /\ Name(api.h) = Name(api.arg)
    /\ openFilesPool[Name(api.arg)] = api.h
    /\ api.h \in open

\* C15: with capacity 1, GetConn of a file and then GetConn of another file
\* (both open) on an empty pool: the second call removes and closes the
\* first entry, CheckConnStatus is false for the first file and true for the
\* second.
C15_CapacityOne ==
  (/\ api.op = "GetConn"
   /\ api.n = 2
   /\ w.maxConns = 1
   /\ PoolCount(api.was.pool) = 1
   /\ api.arg # NilFile
   /\ api.was.pool[Name(api.arg)] = NilFile
   /\ api.was.lu[Name(api.arg)] = 0)
  => \A p \in Paths :
       api.was.pool[p] # NilFile =>
         /\ openFilesPool[p] = NilFile
         /\ connLastUsed[p] = 0
         /\ api.was.pool[p] \notin open
         /\ ~CheckConnStatus(PoolState, api.was.pool[p])
         /\ CheckConnStatus(PoolState, api.arg)
         /\ PoolCount(openFilesPool) = 1

\* C15, its case: the second GetConn on capacity 1 has returned and the
\* handle of the first is closed.
C15_Witness ==
  /\ api.op = "GetConn"
  /\ api.n = 2
  /\ w.maxConns = 1
  /\ api.err = ""
  /\ PoolCount(api.was.pool) = 1
  /\ api.was.pool[Name(api.arg)] = NilFile
  /\ PoolCount(openFilesPool) = 1
  /\ open # {Orig(p) : p \in Paths}

\* C16: once CloseAllConns has returned the pool is empty and every handle
\* that was pooled at the call is closed.
C16_CloseAllDrains ==
  api.op = "CloseAllConns" =>
    /\ openFilesPool = EmptyPool
    /\ \A p \in Paths : api.was.pool[p] # NilFile => api.was.pool[p] \notin open

\* C16, its case: CloseAllConns on a pool of two entries, one of them
\* already closed.
C16_Witness ==
  /\ api.op = "CloseAllConns"
  /\ PoolCount(api.was.pool) = 2
  /\ \E p, q \in Paths :
       /\ api.was.pool[p] # NilFile /\ api.was.pool[p] \notin api.was.open
       /\ api.was.pool[q] \in api.was.open
  /\ openFilesPool = EmptyPool

\* C17: CloseAllConns returns nil when no pooled handle is one whose Close
\* can fail (the handles already closed, an empty pool and a second call in a
\* row included), and an error only when the pool held such a handle.
C17_AlreadyClosedIsSuccess ==
  api.op = "CloseAllConns" =>
    /\ CanFail(api.was) = {} => api.err = ""
    /\ api.err \in {"", "multiple errors closing files"}

\* C17, its case: CloseAllConns returned nil on a pool whose handles were all
\* closed already.
C17_Witness ==
  /\ api.op = "CloseAllConns"
  /\ api.err = ""
  /\ PoolCount(api.was.pool) >= 1
  /\ \A p \in Paths : api.was.pool[p] \notin api.was.open

\* C18: RemoveConn and CloseConn of a pooled file remove its entry and its
\* timestamp and close its handle; for a file that is not pooled they return
\* an error and leave the pool and the timestamps as they were.
C18_RemoveClosesAndForgets ==
  (api.op \in {"RemoveConn", "CloseConn"} /\ api.arg # NilFile) =>
    IF api.was.pool[Name(api.arg)] # NilFile
    THEN /\ openFilesPool[Name(api.arg)] = NilFile
         /\ connLastUsed[Name(api.arg)] = 0
         /\ api.was.pool[Name(api.arg)] \notin open
    ELSE /\ api.err # ""
         /\ PoolState = api.was

\* C19: after a FactoryReset that returned nil every handle that was pooled
\* is closed and the pool, the timestamps and the list of files are empty;
\* the Write that follows it on a configured engine returns the error of the
\* empty list; the Write (with one worker) that follows an AddFiles or
\* SetFiles of a list that is not empty returns Results for that list, every
\* valid file a success.
C19_FactoryReset ==
  /\ (api.op = "FactoryReset" /\ api.err = "" /\ calls = api.at) =>
       /\ openFilesPool = EmptyPool
       /\ connLastUsed = EmptyLastUsed
       /\ w.files = <<>>
       /\ \A p \in Paths :
            api.was.pool[p] # NilFile => api.was.pool[p] \notin open
  /\ (/\ api.op = "FactoryReset" /\ api.err = ""
      /\ calls = api.at + 1 /\ inv.pc = "idle" /\ Configured) =>
       /\ Failed
       /\ ret.err = "files is empty"
  /\ (/\ api.op \in {"AddFiles", "SetFiles"} /\ api.err = ""
      /\ Len(w.files) > 0
      /\ calls = api.at + 1 /\ inv.pc = "idle") =>
       /\ Returned
       /\ ret.results.Total = Len(w.files)
       /\ (\A i \in 1..Len(w.files) : w.files[i] \in ValidTargets)
            => ret.results.Success = Len(w.files)

\* C19, its case: a file whose pooled handle FactoryReset closed was added
\* again to the emptied list, and the Write that followed wrote it.
C19_Witness ==
  /\ Returned
  /\ calls = 2
  /\ api.op = "AddFiles"
  /\ api.at = 1
  /\ w.files = <<Orig(1)>>
  /\ Orig(1) \notin open
  /\ ret.results.Success = 1

\* The operations that change the configuration.
Setters ==
  {"SetFiles", "AddFiles", "SetMode", "SetMessage", "SetRetries",
   "SetBackoff", "SetMaxPool"}

\* C20: while the mode or the message (or the list of files) is nil, every
\* setter and Write return an error and leave the Writer, the pool and the
\* handles as they were.
C20_UnconfiguredRejects ==
  [][~Configured =>
       /\ (api'.n # api.n /\ api'.op \in Setters) =>
            /\ api'.err # ""
            /\ UNCHANGED <<w, ctx, openFilesPool, connLastUsed, open>>
       /\ (inv.pc = "entry" /\ inv'.pc # "entry") =>
            /\ ret'.kind = "error"
            /\ ret'.err \in {"files is nil", "mode is nil", "message is nil"}
            /\ UNCHANGED <<w, openFilesPool, connLastUsed, open, results,
                           jobs, wk>>]_vars

\* C20, its case: SetMode with a mode was refused on an engine whose mode is
\* nil, after another call.
C20_Witness ==
  /\ w.mode = "nil"
  /\ api.op = "SetMode"
  /\ api.err = "mode is nil"
  /\ api.n >= 2
  /\ calls >= 1

\* An invocation of StartWriteWithCancel is in flight.
Started == inv.kind = "StartWriteWithCancel" /\ inv.pc # "idle"

\* C21: for every StartWriteWithCancel exactly one value is delivered, on
\* one of the two channels: no send is made before Write has returned, the
\* channel of the send has room whenever the goroutine reaches it (the send
\* never blocks, whether the caller reads or not), one send is made when
\* Write returns, the results on the result channel or the error on the
\* error channel, and no other send follows.
C21_OneDelivery ==
  /\ [](ch.nres + ch.nerr <= 1)
  /\ [](Started => /\ ch.nres + ch.nerr = 0
                    /\ Len(ch.result) < ChanCap
                    /\ Len(ch.err) < ChanCap)
  /\ []((inv.pc = "idle" /\ ret.via = "StartWriteWithCancel") =>
          /\ ch.nres + ch.nerr = 1
          /\ ch.nres = 1 <=> ret.kind = "results"
          /\ ch.nerr = 1 <=> ret.kind = "error")
  /\ [][(ch'.nres > ch.nres => ch'.result = Append(ch.result, ret'.results))
        /\ (ch'.nerr > ch.nerr => ch'.err = Append(ch.err, ret'.err))]_vars
  /\ Started ~> (~Started /\ ch.nres + ch.nerr = 1)

\* C21, its case: the results were sent and lie unread on the result channel,
\* after a cancellation that came during the run.
C21_Witness ==
  /\ inv.pc = "idle"
  /\ ret.via = "StartWriteWithCancel"
  /\ ctx.done
  /\ Len(ch.result) = 1
  /\ ch.err = <<>>
  /\ ch.result[1].Failure >= 1

\* The engine is configured and its targets are valid, writable files.
AllValid ==
  /\ Configured
  /\ Len(w.files) > 0
  /\ w.maxConns >= 1
  /\ \A i \in 1..Len(w.files) : w.files[i] \in ValidTargets

\* C22: when the cancel function of StartWriteWithCancel has been called
\* before Write returns, Write returns an error, which is sent on the error
\* channel, and nothing is sent on the result channel (stated for valid
\* targets).
C22_CancelSendsError ==
  [][(Started /\ inv'.pc = "idle" /\ ctx.done /\ AllValid) =>
       /\ ret'.kind = "error"
       /\ ch'.nerr = 1
       /\ ch'.nres = 0]_vars

\* An invocation of WriteWithTimeout returns in this step.
TimeoutReturns ==
  inv.kind = "WriteWithTimeout" /\ inv.pc # "idle" /\ inv'.pc = "idle"

\* C23: WriteWithTimeout on a configured engine with valid targets returns
\* an error and no Results when the timeout has expired before Write
\* returns, and Results with a nil error when it has not.
C23_TimeoutIsError ==
  [][(TimeoutReturns /\ AllValid) =>
       IF ctx.done
       THEN ret'.kind = "error" /\ ret'.err = "context canceled"
       ELSE ret'.kind = "results" /\ ret'.err = ""]_vars

\* The jobs that name the path p.
JobsOf(p) == {j \in 1..Len(w.files) : Name(w.files[j]) = p}

\* The jobs of p that are recorded as a success in this step.
Succeeding(p) ==
  {j \in JobsOf(p) \cap DOMAIN log \cap DOMAIN log' :
     log[j].out # "success" /\ log'[j].out = "success"}

\* C24: in append mode, over files that start empty, every target recorded
\* as a success has added exactly one copy of the message at the end of its
\* file, and nothing else changes a file: a file holds copies of the message
\* and nothing more, and after a first Write in which every target
\* succeeded each file holds one copy for each target that names it.
C24_OneCopyEach ==
  /\ [](\A p \in Paths : \A i \in 1..Len(disk[p]) : disk[p][i] = "msg")
  /\ [][\A p \in Paths :
          disk'[p] = disk[p] \o [j \in 1..Cardinality(Succeeding(p)) |-> "msg"]]_vars
  /\ []((Returned /\ calls = 1 /\ ret.results.Success = Len(w.files)) =>
          \A p \in Paths : Len(disk[p]) = Cardinality(JobsOf(p)))

\* C24, its case: two Writes of two files with a pool of one entry, each
\* target a success: the handles the caller gave were closed by the
\* evictions, the second Write went through handles opened for appending,
\* and each file holds two copies.
C24_Witness ==
  /\ Returned
  /\ calls = 2
  /\ w.maxConns = 1
  /\ w.files = <<Orig(1), Orig(2)>>
  /\ ret.results.Success = 2
  /\ Orig(1) \notin open
  /\ disk[1] = <<"msg", "msg">>
  /\ disk[2] = <<"msg", "msg">>

\* The rate <<n, d>> is zero; the two rates <<a, d>> and <<b, e>> add up to 1.
IsZero(rate) == rate[1] = 0
AddUpToOne(r1, r2) == r1[2] = r2[2] /\ r1[1] + r2[1] = r1[2]

\* C25: no rate is ever computed by a division by zero; the Results that
\* Write returns have Total > 0, SuccessRate = Success / Total and
\* FailureRate = Failure / Total, which add up to 1; Results with Total = 0
\* (new, or of a run that has not finished) have both rates 0.
C25_Rates ==
  /\ results.SuccessRate[2] # 0
  /\ results.FailureRate[2] # 0
  /\ results.Total = 0 =>
       IsZero(results.SuccessRate) /\ IsZero(results.FailureRate)
  /\ Returned =>
       /\ ret.results.Total > 0
       /\ ret.results.SuccessRate = <<ret.results.Success, ret.results.Total>>
       /\ ret.results.FailureRate = <<ret.results.Failure, ret.results.Total>>
       /\ AddUpToOne(ret.results.SuccessRate, ret.results.FailureRate)

\* C25, its case: a Write of two targets returned the rates 1/2 and 1/2.
C25_Witness ==
  /\ Returned
  /\ ret.results.SuccessRate = <<1, 2>>
  /\ ret.results.FailureRate = <<1, 2>>

\* C26: AddFiles on a configured engine returns nil; the list becomes the
\* old list followed by the files given, no other field of the Writer, no
\* entry of the pool, no timestamp and no handle changes; the Write that
\* follows it reports the length of that list as its Total.
C26_AddFilesAppends ==
  /\ [][(ApiStep("AddFiles") /\ Configured) =>
          /\ api'.err = ""
          /\ \E files \in NewLists : w'.files = w.files \o files
          /\ w' = [w EXCEPT !.files = w'.files]
          /\ UNCHANGED <<ctx, openFilesPool, connLastUsed, open, results,
                         disk>>]_vars
  /\ []((/\ api.op = "AddFiles" /\ api.err = ""
         /\ calls = api.at + 1 /\ inv.pc = "idle") =>
          /\ Returned
          /\ ret.results.Total = Len(w.files))

\* C26, its case: a file was added to a list of one, and the Write that
\* followed reported two targets.
C26_Witness ==
  /\ api.op = "AddFiles"
  /\ api.err = ""
  /\ calls = api.at + 1
  /\ Returned
  /\ w.files = <<Orig(1), Orig(2)>>
  /\ ret.results.Total = 2

\* C27: every invocation returns.  The send of a job finds room in the jobs
\* channel; the worker that holds the engine lock is in its write, which
\* ends with the unlock, so no worker waits for the lock for ever; once the
\* channel is closed and empty every worker ends, and Write returns.
C27_WriteReturns ==
  /\ []((inv.pc = "enqueue" /\ inv.next <= Len(w.files)) =>
          Len(jobs.q) < JobsCap)
  /\ [](muHolder # 0 => wk[muHolder].pc = "write")
  /\ [](\A n \in Workers :
          wk[n].pc \notin {"off", "done"} => inv.pc \in {"enqueue", "wait"})
  /\ (inv.pc # "idle") ~> (inv.pc = "idle" /\ ret.kind # "none")

\* C27, its case: a worker waits for the engine lock that the other worker
\* holds.
C27_Witness ==
  \E n \in Workers :
    /\ wk[n].pc = "lock"
    /\ muHolder \notin {0, n}

\* C28: the cancellation signal, once fired, stays fired while the
\* invocation runs.  An attempt that starts after it opens no file, writes
\* nothing, takes no lock and changes neither the pool nor a handle; it
\* fails with the error of the context: the last attempt of the target
\* records the target as a failure, an earlier one leads to the next
\* attempt, so that a target attempted only after the signal is a failure.
\* A write in flight when the signal fires is not interrupted: through an
\* open handle of a valid file it succeeds.
C28_CooperativeCancel ==
  [][/\ (ctx.done /\ inv.pc # "idle" /\ inv'.pc # "idle") => ctx'.done
     /\ \A n \in Workers :
          (wk[n].pc = "attempt" /\ ctx.done /\ wk'[n] # wk[n]) =>
            /\ UNCHANGED <<disk, fd, openFilesPool, connLastUsed, muHolder>>
            /\ open' \subseteq open
            /\ results'.Success = results.Success
            /\ IF wk[n].i <= 1
               THEN /\ wk'[n].pc = "recv"
                    /\ log'[wk[n].job].out = "failure"
                    /\ results'.Failure = results.Failure + 1
                    /\ results'.ErrSlice[Len(results'.ErrSlice)].err
                         = "context canceled"
               ELSE /\ wk'[n].pc = "attempt"
                    /\ wk'[n].i = wk[n].i - 1
                    /\ results' = results
     /\ \A n \in Workers :
          (/\ wk[n].pc = "write" /\ ctx.done /\ wk'[n] # wk[n]
           /\ wk[n].cur \in open /\ Name(wk[n].cur) \notin Faulty) =>
            /\ log'[wk[n].job].out = "success"
            /\ results'.Success = results.Success + 1]_vars

\* C28, its case: of two valid targets one was written, in flight or done
\* when the signal fired, and the other, attempted after it, is a failure
\* with the error of the context.
C28_Witness ==
  /\ Returned
  /\ ctx.done
  /\ AllValid
  /\ Len(w.files) = 2
  /\ ret.results.Success = 1
  /\ ret.results.Failure = 1
  /\ ret.results.ErrSlice[1].err = "context canceled"
  /\ \E p \in Paths : disk[p] = <<"msg">>
  /\ \E p \in Paths : \E j \in JobsOf(p) : log[j].out = "failure" /\ disk[p] = <<>>

\* The worker n takes a step.
Steps(n) == wk'[n] # wk[n]

\* C29: a write that fails leaves the handle it used closed and returns the
\* error to the retry wrapper; the attempt that follows a failed write (the
\* context not cancelled) does not write through a handle but opens a new
\* one, which replaces the entry of the pool and is the handle written
\* through.
C29_RetryReopens ==
  [][\A n \in Workers :
       /\ (/\ wk[n].pc = "write" /\ Steps(n)
           /\ log'[wk[n].job].out # "success") =>
             /\ wk[n].cur \notin open'
             /\ \/ wk'[n].pc = "attempt" /\ wk'[n].err = "write"
                \/ log'[wk[n].job].out = "failure"
       /\ (/\ wk[n].pc = "attempt" /\ wk[n].err = "write"
           /\ ~ctx.done /\ Steps(n)) =>
             wk'[n].pc = "open"
       /\ (wk[n].pc = "lock" /\ wk[n].err = "write" /\ Steps(n)) =>
             /\ wk'[n].pc = "write"
             /\ wk[n].cur \in open
             /\ openFilesPool'[Name(wk[n].file)] = wk[n].cur]_vars

\* C30: the wrapper makes no call after a call that succeeded, and returns
\* nil at that call; what it returns otherwise is the error of its last
\* call, as it is when retries = 0 and wrapped in the exhaustion error when
\* retries >= 1.
C30_RetryReturns ==
  /\ rt.calls - rt.fails <= 1
  /\ rt.calls - rt.fails = 1 => rt.pc = "returned" /\ rt.ret = "nil"
  /\ rt.pc = "returned" =>
       /\ rt.ret = "nil" => rt.err = 0 /\ rt.calls = rt.fails + 1
       /\ rt.ret # "nil" =>
            /\ rt.fails = rt.calls
            /\ rt.err = rt.calls
            /\ rt.ret = (IF rt.tries = 0 THEN "raw" ELSE "exhausted")
       /\ rt.tries = 0 => rt.calls = 1

\* C30, its case: with three retries the second call succeeded and the
\* wrapper returned nil after two calls.
C30_Witness ==
  /\ rt.pc = "returned"
  /\ rt.tries = 3
  /\ rt.calls = 2
  /\ rt.fails = 1
  /\ rt.ret = "nil"

\* The workers inside GetConn, between its lookup of the pool (with the
\* deletions the lookup made) and its store of the new connection.
InGetConn == {n \in Workers : wk[n].pc = "store"}

\* C31: the operations that change the pool or the timestamps exclude one
\* another: no two workers are inside GetConn's change of the pool at the
\* same time, the store of a reopened file is made while no GetConn is
\* changing the pool, and no liveness check (CheckConnStatus) reads the pool
\* while another worker is changing it.
C31_PoolMutex ==
  /\ [](Cardinality(InGetConn) <= 1)
  /\ [][\A n \in Workers :
          /\ (wk[n].pc = "lock" /\ Steps(n)) => InGetConn = {}
          /\ (wk[n].pc = "attempt" /\ ~ctx.done /\ Steps(n)) =>
               InGetConn \ {n} = {}]_vars

\* The callers between the reads of a setter and its store.
Updating == {c \in Callers : calling[c].pc = "store"}

\* C32: the setters exclude one another: no two callers are between the
\* reads and the store of a setter at the same time, and an AddFiles that
\* returns nil has appended its files to the list the Writer held at its
\* store, so that no file another AddFiles added is lost.
C32_SettersExclusive ==
  /\ [](Cardinality(Updating) <= 1)
  /\ [][\A c \in Callers :
          (/\ calling[c].pc = "store"
           /\ calling[c].op = "AddFiles"
           /\ calling'[c].pc = "idle") =>
            w'.files = w.files \o calling[c].files]_vars

\* The least number of batches of the size given that hold n files.
Ceil(n, size) ==
  CHOOSE k \in 0..n : k * size >= n /\ \A j \in 0..(k - 1) : j * size < n

\* C34: batcher(batchSize) over a list of n files returns, with size the
\* batchSize given, or n / numCPU (1 when that is 0) for a batchSize <= 0:
\* ceil(n / size) batches, none empty, each of size files but the last,
\* which has at most size; the batch i (from 0) holds the files of the list
\* from the place i * size on, in order, and the last batch ends with the
\* last file, so the batches one after the other are the list.
C34_FixedStride ==
  split.n > 0 =>
    LET n == Len(w.files)
        size == IF split.size > 0 THEN split.size
                ELSE IF n \div NumCPU = 0 THEN 1 ELSE n \div NumCPU
        out == split.out
    IN /\ Len(out) = Ceil(n, size)
       /\ \A i \in 1..Len(out) :
            /\ Len(out[i]) >= 1
            /\ Len(out[i]) <= size
            /\ i < Len(out) => Len(out[i]) = size
            /\ \A k \in 1..Len(out[i]) : out[i][k] = w.files[(i - 1) * size + k]
       /\ Len(out) > 0 => (Len(out) - 1) * size + Len(out[Len(out)]) = n
       /\ n = 0 => out = <<>>

\* C34, its case: batcher(0) over five files, with two CPUs: two batches of
\* two and a last batch of one.
C34_Witness ==
  /\ split.n > 0
  /\ split.size = 0
  /\ Len(w.files) = 5
  /\ Len(split.out) = 3
  /\ Len(split.out[1]) = 2
  /\ Len(split.out[3]) = 1
  /\ split.out[3][1] = w.files[5]

\* The workers that Write started.
Launched(wkr) == {n \in Workers : wkr[n].pc # "off"}

\* The files on the jobs channel, in the order of their sends.
Sent(q) == [k \in 1..Len(q) |-> q[k][2]]

\* C33: on the batching path (a list longer than the threshold) as on the
\* direct path, the k-th send on the jobs channel is the k-th target of the
\* list, and when the channel is closed every target has been sent exactly
\* once, in list order; the workers are started before the path is chosen,
\* min(m, number of targets) of them on both paths.
C33_BatchingSameJobs ==
  /\ [][(inv.pc = "enqueue" /\ jobs'.q # jobs.q) =>
          /\ Len(jobs'.q) = Len(jobs.q) + 1
          /\ Sent(jobs'.q) = SubSeq(w.files, 1, Len(jobs.q) + 1)]_vars
  /\ [](inv.pc = "wait" => Sent(jobs.q) = w.files)
  /\ [][(inv.pc = "entry" /\ inv'.pc = "enqueue") =>
          Cardinality(Launched(wk')) =
            Min(IF inv.maxWorkers <= 0 THEN NumCPU ELSE inv.maxWorkers,
                Len(w.files))]_vars

\* C33, its case: a list of five targets went through the batching path,
\* in batches of two, two and one, and the channel holds the five in list
\* order.
C33_Witness ==
  /\ inv.pc = "wait"
  /\ Len(w.files) = 5
  /\ Len(w.files) > BatchThreshold
  /\ Len(batcher(w.files, 0)) = 3
  /\ w.files[2] # w.files[3]
  /\ w.files[4] # w.files[5]
  /\ Sent(jobs.q) = w.files

\* An invocation is running its worker pool, before and after the step.
Running == inv.pc \in {"enqueue", "wait"} /\ inv'.pc \in {"enqueue", "wait"}

\* C35: Write starts min(m, number of targets) workers, m being maxWorkers
\* when it is > 0 and the CPU count otherwise: at least one and never more
\* than there are targets; no worker is started after that, whatever the
\* number of jobs, and none is started by a Write that returns an error.
C35_WorkerCount ==
  /\ [][(inv.pc = "entry" /\ inv'.pc = "enqueue") =>
          /\ Cardinality(Launched(wk')) =
               Min(IF inv.maxWorkers > 0 THEN inv.maxWorkers ELSE NumCPU,
                   Len(w.files))
          /\ Cardinality(Launched(wk')) >= 1
          /\ Cardinality(Launched(wk')) <= Len(w.files)]_vars
  /\ [][Running => Launched(wk') = Launched(wk)]_vars
  /\ [](inv.pc \in {"idle", "entry"} => Launched(wk) = {})

\* C35, its case: a Write(1) over two targets has recorded both with the
\* one worker it started.
C35_Witness ==
  /\ inv.pc = "wait"
  /\ Len(w.files) = 2
  /\ Cardinality(Launched(wk)) = 1
  /\ results.Success + results.Failure = 2

\* C36: in every state of the Results of an invocation, from their creation
\* to their return, Success + Failure <= Total.
C36_CountsWithinTotal ==
  /\ results.Success + results.Failure <= results.Total
  /\ ret.results.Success + ret.results.Failure <= ret.results.Total

\* The paths of the pool, and the paths of the timestamps.
Pooled == {p \in Paths : openFilesPool[p] # NilFile}
Stamped == {p \in Paths : connLastUsed[p] # 0}

\* C37: the paths of the pool are the paths of the timestamps: every pooled
\* entry has a timestamp and no timestamp outlives its entry.
C37_PoolConsistent == Pooled = Stamped

\* No file is named twice in the list.
Distinct(files) ==
  \A i, j \in 1..Len(files) : files[i] = files[j] => i = j

\* C38: in truncate mode, when a Write has returned, every target it
\* recorded as a success holds exactly one copy of the message, whatever
\* the Writes before it (stated for the lists that name no file twice).
C38_TruncateOneCopy ==
  (Returned /\ w.mode = "w" /\ Distinct(w.files)) =>
    \A j \in DOMAIN log :
      log[j].out = "success" => disk[Name(w.files[j])] = <<"msg">>

\* C39: in the Results that Write returns, Info holds an entry for a path
\* only if a target of that path is recorded as a failure.
C39_InfoOnlyForFailures ==
  Returned =>
    \A p \in ret.results.Info :
      \E j \in JobsOf(p) : log[j].out = "failure"

\* The mode or the message is not set.
Unset == w.mode = "nil" \/ w.message = "nil"

\* C40: an engine whose mode or message is not set stays so under every
\* call of the setters (and of AddConn, FactoryReset and Write): the mode and
\* the message do not change, each setter returns the error of the check of
\* the engine and changes nothing, and no Write of it dispatches work.
C40_UnconfiguredAbsorbing ==
  /\ [][Unset =>
          /\ w'.mode = w.mode
          /\ w'.message = w.message
          /\ (api'.n # api.n /\ api'.op \in Setters) =>
               /\ api'.err = fullWriteCheck(w)
               /\ api'.err \in {"mode is nil", "message is nil"}
               /\ w' = w]_vars
  /\ [](Unset => inv.pc \in {"idle", "entry"})

\* C40, its case: on an engine with a mode and no message, SetMessage was
\* refused as the last of four calls, and a Write was refused too.
C40_Witness ==
  /\ w.mode = "a"
  /\ w.message = "nil"
  /\ api.op = "SetMessage"
  /\ api.err = "message is nil"
  /\ api.n = MaxOps
  /\ Failed
  /\ ret.err = "message is nil"

=============================================================================
